---------------------------- MODULE Spec2Model ----------------------------
(***************************************************************************)
(* Model of the invoice PDF exporter: the page layout of                   *)
(* modules/pdf_generator.py (PDFGenerator._layout_invoices and helpers)    *)
(* and the DBF reader of modules/dbf_reader.py (InvoiceDBFReader).         *)
(*                                                                         *)
(* Lengths are exact integers.  reportlab defines inch = 72 pt and         *)
(* mm = inch / 25.4, so 1 mm = 360/127 pt; with 12700 model units per      *)
(* point a millimetre is 36000 units, and every height of config.py, the   *)
(* zone thirds and halves and the 0.01 pt tolerance are whole numbers.     *)
(***************************************************************************)
EXTENDS Integers, Sequences, FiniteSets, TLC

VARIABLES
    invoices,             \* _layout_invoices: the argument, a list of Invoice
    lpc,                  \* _layout_invoices: "start", "placing" or "done"
    groups_with_heights,  \* _layout_invoices: the sorted list of (group, height)
    gi,                   \* index of the group being placed (outer for)
    ii,                   \* index of the invoice inside that group (inner for)
    pages,                \* list of pages, each a list of (invoice, allocated, real)
    page_heights,         \* running height of every page
    page_invoice_counts,  \* number of invoices of every page
    qpc,                  \* _get_size_category alone: "call" or "return"
    qheight,              \* its arguments, two heights
    qresult,              \* its results for the two heights
    ipc,                  \* _detect_field_structure alone: "call" or "return"
    itable,               \* its argument table: field names and records
    idoc_type,            \* its argument doc_type
    iresult,              \* the mapping it returns, or the error it raises
    db,                   \* the database directory: its listing and its tables
    rpc,                  \* InvoiceDBFReader: "new", "detect", "ready", "read", "failed"
    raised,               \* the exception the last call raised to its caller, or ""
    invoice_doc_types,    \* self.invoice_doc_types
    invoice_files,        \* self.invoice_files
    field_mappings,       \* self.field_mappings
    catalog_paths,        \* self.catalog_paths
    items_catalogs,       \* self.items_catalogs
    units_catalogs,       \* self.units_catalogs
    contractors_catalog,  \* self.contractors_catalog
    read_args,            \* the arguments of the last read_invoices call
    read_result,          \* the list it returned
    read_logged,          \* the exception it caught and logged, or ""
    extract_result,       \* the list extract_invoices made of it for its caller
    gpc,                  \* _group_invoices_by_order alone: "call" or "return"
    ginvoices,            \* its argument, a list of Invoice
    gresult,              \* the list of groups it returns
    hpc,                  \* _calculate_invoice_height alone: "call" or "return"
    hinvoices,            \* two invoices, one call each
    heights               \* the heights returned for the two

layoutVars == <<invoices, lpc, groups_with_heights, gi, ii, pages,
                page_heights, page_invoice_counts>>

quantVars == <<qpc, qheight, qresult>>

inferVars == <<ipc, itable, idoc_type, iresult>>

readerVars == <<db, rpc, raised, invoice_doc_types, invoice_files,
                field_mappings, catalog_paths, items_catalogs, units_catalogs,
                contractors_catalog, read_args, read_result, read_logged, extract_result>>

groupVars == <<gpc, ginvoices, gresult>>

heightVars == <<hpc, hinvoices, heights>>

vars == <<layoutVars, quantVars, inferVars, readerVars, groupVars, heightVars>>

\* what an operation of one part leaves alone
notLayoutVars == <<quantVars, inferVars, readerVars, groupVars, heightVars>>
notQuantVars == <<layoutVars, inferVars, readerVars, groupVars, heightVars>>
notInferVars == <<layoutVars, quantVars, readerVars, groupVars, heightVars>>
notReaderVars == <<layoutVars, quantVars, inferVars, groupVars, heightVars>>
notGroupVars == <<layoutVars, quantVars, inferVars, readerVars, heightVars>>
notHeightVars == <<layoutVars, quantVars, inferVars, readerVars, groupVars>>

-----------------------------------------------------------------------------
(* Bounds of the model *)

\* longest list of invoices handed to the layout
MaxDocs == 4

\* longest list of invoices in the runs checked for termination
MaxFairDocs == 2

\* longest list of invoices in the runs checked step by step
MaxStepDocs == 3

\* the order numbers an invoice may carry ("" is "no order number")
OrderNumbers == {"", "A", "B", "C"}

\* The layout reads an order number only to test it for emptiness and for
\* equality with another one, so a list of invoices stands for every list
\* got from it by renaming the non-empty order numbers.  The lists
\* enumerated are those whose non-empty order numbers make their first
\* appearance in the order "A", "B", "C".
NamedBefore == [A |-> {}, B |-> {"A"}, C |-> {"A", "B"}]

FirstSeenInOrder(invs) ==
    \A i \in 1..Len(invs) :
        invs[i].order_number # "" =>
            \A k \in NamedBefore[invs[i].order_number] :
                \E j \in 1..(i - 1) : invs[j].order_number = k

\* numbers of line items: one per allocation tier, and one above the full zone
ItemCounts == {1, 7, 20, 43}

-----------------------------------------------------------------------------
(* config.py *)

pt == 12700
mm == 36000

PAGE_HEIGHT == 297 * mm
MAX_INVOICES_PER_PAGE == 3
PAGE_MARGIN_TOP == 10 * mm
PAGE_MARGIN_BOTTOM == 10 * mm
INVOICE_SPACING == 1 * mm
AVAILABLE_HEIGHT == PAGE_HEIGHT - PAGE_MARGIN_TOP - PAGE_MARGIN_BOTTOM

header_height == 50 * pt
table_row_height == 15 * pt
table_header_height == 20 * pt
footer_height == 60 * pt
spacing_internal == 10 * pt

\* the 0.01 pt slack of the fit test
FitTolerance == pt \div 100

-----------------------------------------------------------------------------
(* modules/pdf_generator.py *)

\* An Invoice, as far as the layout reads it: its order_number and the
\* length of its items list (field items holds len(invoice.items)).
Invoice == [order_number : OrderNumbers, items : ItemCounts]

\* the height with the rows of the items taken off instead of added
InvoiceHeightRowsTakenOff(invoice) ==
    header_height + table_header_height
      - invoice.items * table_row_height
      + table_row_height + footer_height + spacing_internal

_calculate_invoice_height(invoice) ==
    header_height + table_header_height
      + invoice.items * table_row_height
      + table_row_height + footer_height + spacing_internal

available_for_invoices ==
    AVAILABLE_HEIGHT - (MAX_INVOICES_PER_PAGE - 1) * INVOICE_SPACING

\* the divisions are exact in model units
zone_third == available_for_invoices \div 3
zone_half == available_for_invoices \div 2
zone_full == available_for_invoices

\* mutant: the zone limits compared with < instead of <=
SizeCategoryStrict(invoice_height) ==
    IF invoice_height < zone_third
    THEN [category |-> "third", allocated |-> zone_third]
    ELSE IF invoice_height < zone_half
         THEN [category |-> "half", allocated |-> zone_half]
         ELSE [category |-> "full", allocated |-> zone_full]

_get_size_category(invoice_height) ==
    IF invoice_height <= zone_third
    THEN [category |-> "third", allocated |-> zone_third]
    ELSE IF invoice_height <= zone_half
         THEN [category |-> "half", allocated |-> zone_half]
         ELSE [category |-> "full", allocated |-> zone_full]

\* key of the OrderedDict of _group_invoices_by_order
GroupKey(invoice) ==
    IF invoice.order_number # "" THEN invoice.order_number ELSE "__EMPTY__"

\* The loop of _group_invoices_by_order: acc is the OrderedDict as a list of
\* (key, members) in insertion order; an invoice is named by its position
\* in the input list.
RECURSIVE GroupFold(_, _, _)
GroupFold(invs, i, acc) ==
    IF i > Len(invs) THEN acc
    ELSE LET key == GroupKey(invs[i])
             pos == {j \in 1..Len(acc) : acc[j].key = key}
         IN IF pos = {}
            THEN GroupFold(invs, i + 1,
                           Append(acc, [key |-> key, members |-> <<i>>]))
            ELSE LET j == CHOOSE k \in pos : TRUE
                 IN GroupFold(invs, i + 1,
                              [acc EXCEPT ![j].members = Append(@, i)])

\* mutant: groups_dict[key] = [invoice] instead of append, so that a group
\* keeps only its last invoice
GroupInvoicesKeepLast(invs) ==
    LET d == GroupFold(invs, 1, <<>>)
    IN [j \in 1..Len(d) |-> <<d[j].members[Len(d[j].members)]>>]

\* groups_dict[key].insert(0, invoice) instead of append: the newest
\* invoice of a group first
GroupInvoicesNewestFirst(invs) ==
    LET d == GroupFold(invs, 1, <<>>)
    IN [j \in 1..Len(d) |->
           [k \in 1..Len(d[j].members) |->
               d[j].members[Len(d[j].members) + 1 - k]]]

_group_invoices_by_order(invs) ==
    LET d == GroupFold(invs, 1, <<>>)
    IN [j \in 1..Len(d) |-> d[j].members]

RECURSIVE GroupHeightFrom(_, _, _)
GroupHeightFrom(invs, group, idx) ==
    IF idx > Len(group) THEN 0
    ELSE _get_size_category(_calculate_invoice_height(invs[group[idx]])).allocated
           + (IF idx < Len(group) THEN INVOICE_SPACING ELSE 0)
           + GroupHeightFrom(invs, group, idx + 1)

_calculate_group_height(invs, group) == GroupHeightFrom(invs, group, 1)

\* list.sort(key=height, reverse=True): stable, so groups of equal height
\* keep their order
InsertDesc(sorted, x) ==
    LET before == {j \in 1..Len(sorted) : sorted[j].height >= x.height}
        n == Cardinality(before)
    IN SubSeq(sorted, 1, n) \o <<x>> \o SubSeq(sorted, n + 1, Len(sorted))

RECURSIVE SortFrom(_, _, _)
SortFrom(list, i, acc) ==
    IF i > Len(list) THEN acc
    ELSE SortFrom(list, i + 1, InsertDesc(acc, list[i]))

\* mutant: the groups are left in first-seen order
SortGroupsKeepOrder(list) == list

\* the sort without reverse=True: the lowest group first
SortGroupsAscending(list) ==
    LET sorted == SortFrom(list, 1, <<>>)
    IN [k \in 1..Len(sorted) |-> sorted[Len(sorted) + 1 - k]]

SortGroups(list) == SortFrom(list, 1, <<>>)

\* steps 1-3 of _layout_invoices
GroupsWithHeights(invs) ==
    LET groups == _group_invoices_by_order(invs)
    IN SortGroups([j \in 1..Len(groups) |->
                     [group |-> groups[j],
                      height |-> _calculate_group_height(invs, groups[j])]])

\* mutant: only the count is tested
FitsCountOnly(current_height, current_count, allocated_height) ==
    current_count < MAX_INVOICES_PER_PAGE

\* the fit test with the cap reached one invoice early
FitsCapOffByOne(current_height, current_count, allocated_height) ==
    LET test_height == current_height + allocated_height
                         + (IF current_count > 0 THEN INVOICE_SPACING ELSE 0)
    IN /\ test_height <= AVAILABLE_HEIGHT + FitTolerance
       /\ current_count + 1 < MAX_INVOICES_PER_PAGE

\* the fit test of the placement step
Fits(current_height, current_count, allocated_height) ==
    LET test_height == current_height + allocated_height
                         + (IF current_count > 0 THEN INVOICE_SPACING ELSE 0)
    IN /\ test_height <= AVAILABLE_HEIGHT + FitTolerance
       /\ current_count < MAX_INVOICES_PER_PAGE

\* the (invoice, allocated_height, invoice_height) tuple of a page
PageEntry(invs, i) ==
    LET h == _calculate_invoice_height(invs[i])
    IN [inv |-> i, allocated |-> _get_size_category(h).allocated, real |-> h]

\* the layout is not running
IdleLayout ==
    /\ invoices = <<>>
    /\ lpc = "idle"
    /\ groups_with_heights = <<>>
    /\ gi = 1
    /\ ii = 1
    /\ pages = <<>>
    /\ page_heights = <<>>
    /\ page_invoice_counts = <<>>

\* _get_size_category is not being called on its own
IdleQuant ==
    /\ qpc = "idle"
    /\ qheight = <<0, 0>>
    /\ qresult = <<>>

\* _detect_field_structure is not being called on its own
IdleInfer ==
    /\ ipc = "idle"
    /\ itable = <<>>
    /\ idoc_type = <<>>
    /\ iresult = <<>>

\* _group_invoices_by_order is not being called on its own
IdleGroup ==
    /\ gpc = "idle"
    /\ ginvoices = <<>>
    /\ gresult = <<>>

\* _calculate_invoice_height is not being called on its own
IdleHeight ==
    /\ hpc = "idle"
    /\ hinvoices = <<>>
    /\ heights = <<>>

\* no database directory
NoDatabase == [exists |-> FALSE, dir |-> <<>>, file |-> <<>>]

\* end_date = None
NoDate == 0

IdleReader ==
    /\ db = NoDatabase
    /\ rpc = "idle"
    /\ raised = ""
    /\ invoice_doc_types = <<>>
    /\ invoice_files = <<>>
    /\ field_mappings = <<>>
    /\ catalog_paths = <<>>
    /\ items_catalogs = <<>>
    /\ units_catalogs = <<>>
    /\ contractors_catalog = <<>>
    /\ read_args = [start_date |-> NoDate, end_date |-> NoDate]
    /\ read_result = <<>>
    /\ read_logged = ""
    /\ extract_result = <<>>

InitLayout ==
    /\ IdleQuant
    /\ IdleInfer
    /\ IdleReader
    /\ IdleGroup
    /\ IdleHeight
    /\ \E n \in 0..MaxDocs : invoices \in [1..n -> Invoice]
    /\ FirstSeenInOrder(invoices)
    /\ lpc = "start"
    /\ groups_with_heights = <<>>
    /\ gi = 1
    /\ ii = 1
    /\ pages = <<>>
    /\ page_heights = <<>>
    /\ page_invoice_counts = <<>>

\* _layout_invoices up to the placement loop
LayoutStart ==
    /\ lpc = "start"
    /\ IF invoices = <<>>
       THEN /\ lpc' = "done"
            /\ UNCHANGED groups_with_heights
       ELSE /\ lpc' = "placing"
            /\ groups_with_heights' = GroupsWithHeights(invoices)
    /\ pages' = <<>>
    /\ page_heights' = <<>>
    /\ page_invoice_counts' = <<>>
    /\ gi' = 1
    /\ ii' = 1
    /\ UNCHANGED <<invoices, notLayoutVars>>

\* the inner loop raising on an invoice higher than the page
PlaceInvoiceRejectOversize ==
    /\ lpc = "placing"
    /\ PageEntry(invoices, groups_with_heights[gi].group[ii]).real
          <= AVAILABLE_HEIGHT
    /\ LET group == groups_with_heights[gi].group
           e == PageEntry(invoices, group[ii])
           last_page_idx == Len(pages)
           placed == /\ pages # <<>>
                     /\ Fits(page_heights[last_page_idx],
                             page_invoice_counts[last_page_idx], e.allocated)
       IN /\ IF placed
             THEN /\ pages' = [pages EXCEPT ![last_page_idx] = Append(@, e)]
                  /\ page_heights' =
                       [page_heights EXCEPT ![last_page_idx] =
                          @ + (IF page_invoice_counts[last_page_idx] > 0
                               THEN INVOICE_SPACING ELSE 0) + e.allocated]
                  /\ page_invoice_counts' =
                       [page_invoice_counts EXCEPT ![last_page_idx] = @ + 1]
             ELSE /\ pages' = Append(pages, <<e>>)
                  /\ page_heights' = Append(page_heights, e.allocated)
                  /\ page_invoice_counts' = Append(page_invoice_counts, 1)
          /\ IF ii < Len(group)
             THEN /\ ii' = ii + 1
                  /\ UNCHANGED <<gi, lpc>>
             ELSE IF gi < Len(groups_with_heights)
                  THEN /\ gi' = gi + 1
                       /\ ii' = 1
                       /\ UNCHANGED lpc
                  ELSE /\ lpc' = "done"
                       /\ UNCHANGED <<gi, ii>>
    /\ UNCHANGED <<invoices, groups_with_heights, notLayoutVars>>

\* the inner loop trying every page of the plan, the first one first
PlaceInvoiceFirstFit ==
    /\ lpc = "placing"
    /\ LET group == groups_with_heights[gi].group
           e == PageEntry(invoices, group[ii])
           rooms == {p \in 1..Len(pages) :
                        Fits(page_heights[p], page_invoice_counts[p],
                             e.allocated)}
           last_page_idx == IF rooms = {} THEN Len(pages)
                            ELSE CHOOSE p \in rooms : \A q \in rooms : p <= q
           placed == rooms # {}
       IN /\ IF placed
             THEN /\ pages' = [pages EXCEPT ![last_page_idx] = Append(@, e)]
                  /\ page_heights' =
                       [page_heights EXCEPT ![last_page_idx] =
                          @ + (IF page_invoice_counts[last_page_idx] > 0
                               THEN INVOICE_SPACING ELSE 0) + e.allocated]
                  /\ page_invoice_counts' =
                       [page_invoice_counts EXCEPT ![last_page_idx] = @ + 1]
             ELSE /\ pages' = Append(pages, <<e>>)
                  /\ page_heights' = Append(page_heights, e.allocated)
                  /\ page_invoice_counts' = Append(page_invoice_counts, 1)
          /\ IF ii < Len(group)
             THEN /\ ii' = ii + 1
                  /\ UNCHANGED <<gi, lpc>>
             ELSE IF gi < Len(groups_with_heights)
                  THEN /\ gi' = gi + 1
                       /\ ii' = 1
                       /\ UNCHANGED lpc
                  ELSE /\ lpc' = "done"
                       /\ UNCHANGED <<gi, ii>>
    /\ UNCHANGED <<invoices, groups_with_heights, notLayoutVars>>

\* one pass of the inner loop "for invoice in group"
PlaceInvoice ==
    /\ lpc = "placing"
    /\ LET group == groups_with_heights[gi].group
           e == PageEntry(invoices, group[ii])
           last_page_idx == Len(pages)
           placed == /\ pages # <<>>
                     /\ Fits(page_heights[last_page_idx],
                             page_invoice_counts[last_page_idx], e.allocated)
       IN /\ IF placed
             THEN /\ pages' = [pages EXCEPT ![last_page_idx] = Append(@, e)]
                  /\ page_heights' =
                       [page_heights EXCEPT ![last_page_idx] =
                          @ + (IF page_invoice_counts[last_page_idx] > 0
                               THEN INVOICE_SPACING ELSE 0) + e.allocated]
                  /\ page_invoice_counts' =
                       [page_invoice_counts EXCEPT ![last_page_idx] = @ + 1]
             ELSE /\ pages' = Append(pages, <<e>>)
                  /\ page_heights' = Append(page_heights, e.allocated)
                  /\ page_invoice_counts' = Append(page_invoice_counts, 1)
          /\ IF ii < Len(group)
             THEN /\ ii' = ii + 1
                  /\ UNCHANGED <<gi, lpc>>
             ELSE IF gi < Len(groups_with_heights)
                  THEN /\ gi' = gi + 1
                       /\ ii' = 1
                       /\ UNCHANGED lpc
                  ELSE /\ lpc' = "done"
                       /\ UNCHANGED <<gi, ii>>
    /\ UNCHANGED <<invoices, groups_with_heights, notLayoutVars>>

NextLayout == LayoutStart \/ PlaceInvoice

SpecLayout == InitLayout /\ [][NextLayout]_vars

\* _layout_invoices is one call that runs through its loops: a step that
\* can be taken is taken
InitLayoutFair ==
    /\ IdleQuant
    /\ IdleInfer
    /\ IdleReader
    /\ IdleGroup
    /\ IdleHeight
    /\ \E n \in 0..MaxFairDocs : invoices \in [1..n -> Invoice]
    /\ FirstSeenInOrder(invoices)
    /\ lpc = "start"
    /\ groups_with_heights = <<>>
    /\ gi = 1
    /\ ii = 1
    /\ pages = <<>>
    /\ page_heights = <<>>
    /\ page_invoice_counts = <<>>

SpecLayoutFair ==
    InitLayoutFair /\ [][NextLayout]_vars /\ WF_vars(NextLayout)

\* the call on the lists of at most MaxStepDocs invoices
InitLayoutStep ==
    /\ IdleQuant
    /\ IdleInfer
    /\ IdleReader
    /\ IdleGroup
    /\ IdleHeight
    /\ \E n \in 0..MaxStepDocs : invoices \in [1..n -> Invoice]
    /\ FirstSeenInOrder(invoices)
    /\ lpc = "start"
    /\ groups_with_heights = <<>>
    /\ gi = 1
    /\ ii = 1
    /\ pages = <<>>
    /\ page_heights = <<>>
    /\ page_invoice_counts = <<>>

SpecLayoutStep == InitLayoutStep /\ [][NextLayout]_vars

-----------------------------------------------------------------------------
(* Properties of the layout *)

\* the places of the page plan: (page, position on the page)
PagePositions ==
    UNION {{<<p, k>> : k \in 1..Len(pages[p])} : p \in 1..Len(pages)}

\* how often invoice i is in the plan
Occurrences(i) ==
    Cardinality({pk \in PagePositions : pages[pk[1]][pk[2]].inv = i})

\* the pages that hold invoice i
PagesOf(i) == {p \in 1..Len(pages) : \E k \in 1..Len(pages[p]) : pages[p][k].inv = i}

\* the invoices of page p, in page order
PageInvs(p) == [k \in 1..Len(pages[p]) |-> pages[p][k].inv]

RECURSIVE SumSeq(_)
SumSeq(q) == IF q = <<>> THEN 0 ELSE Head(q) + SumSeq(Tail(q))

\* allocated heights of page p plus one spacing between neighbours
PageAllocated(p) ==
    SumSeq([k \in 1..Len(pages[p]) |-> pages[p][k].allocated])
      + (Len(pages[p]) - 1) * INVOICE_SPACING

\* required heights of page p plus one spacing between neighbours
PageRequired(p) ==
    SumSeq([k \in 1..Len(pages[p]) |-> pages[p][k].real])
      + (Len(pages[p]) - 1) * INVOICE_SPACING

(* C1: every input document is in the returned plan exactly once (so on
   exactly one page), no document is in the plan twice while the plan is
   built, and the document counts of the pages add up to the number of
   input documents. *)
C1_Conservation ==
    /\ \A i \in 1..Len(invoices) : Occurrences(i) <= 1
    /\ \A pk \in PagePositions : pages[pk[1]][pk[2]].inv \in 1..Len(invoices)
    /\ lpc = "done" =>
         /\ \A i \in 1..Len(invoices) :
               Occurrences(i) = 1 /\ Cardinality(PagesOf(i)) = 1
         /\ SumSeq(page_invoice_counts) = Len(invoices)
         /\ SumSeq([p \in 1..Len(pages) |-> Len(pages[p])]) = Len(invoices)

C1_Witness ==
    /\ lpc = "done"
    /\ Len(invoices) = 4
    /\ Len(pages) = 3
    /\ \E i, j \in 1..Len(invoices) :
         i # j /\ invoices[i].order_number = invoices[j].order_number

(* C2: in every state of the placement no page holds more than
   MAX_INVOICES_PER_PAGE documents and no page's allocated heights plus
   spacing exceed AVAILABLE_HEIGHT; the running totals the code keeps are
   these sums; and a page whose required heights plus spacing exceed
   AVAILABLE_HEIGHT holds a single document higher than the full zone. *)
C2_PageWithinLimits ==
    /\ Len(page_heights) = Len(pages)
    /\ Len(page_invoice_counts) = Len(pages)
    /\ \A p \in 1..Len(pages) :
         /\ page_invoice_counts[p] = Len(pages[p])
         /\ page_heights[p] = PageAllocated(p)
         /\ Len(pages[p]) <= MAX_INVOICES_PER_PAGE
         /\ PageAllocated(p) <= AVAILABLE_HEIGHT
         /\ PageRequired(p) > AVAILABLE_HEIGHT =>
              Len(pages[p]) = 1 /\ pages[p][1].real > zone_full

C2_Witness ==
    /\ lpc = "done"
    /\ \E p \in 1..Len(pages) :
         Len(pages[p]) = MAX_INVOICES_PER_PAGE
           /\ PageAllocated(p) = AVAILABLE_HEIGHT
    /\ \E p \in 1..Len(pages) :
         Len(pages[p]) = 1 /\ PageRequired(p) > AVAILABLE_HEIGHT

\* the scenario of C3: four documents, one with 20 items and three with
\* 1 item whose order numbers differ pairwise
Smalls == {i \in 1..Len(invoices) : invoices[i].items = 1}
Larges == {i \in 1..Len(invoices) : invoices[i].items = 20}

ThreeSmallOneLarge ==
    /\ Len(invoices) = 4
    /\ Cardinality(Smalls) = 3
    /\ Cardinality(Larges) = 1
    /\ \A i, j \in Smalls :
         i # j => invoices[i].order_number # invoices[j].order_number

\* the order number of the large document is none of the small ones'
LargeKeyApart ==
    \A l \in Larges : \A i \in Smalls :
        invoices[l].order_number # invoices[i].order_number

\* the members of a set of input positions in input order
RECURSIVE InOrder(_)
InOrder(S) ==
    IF S = {} THEN <<>>
    ELSE LET m == CHOOSE x \in S : \A y \in S : x <= y
         IN <<m>> \o InOrder(S \ {m})

(* C3 as stated: in the scenario the plan has 2 pages, page 1 holds the
   three small documents and page 2 the large document alone. *)
C3_SmallsFirst ==
    (lpc = "done" /\ ThreeSmallOneLarge) =>
        /\ Len(pages) = 2
        /\ {pages[1][k].inv : k \in 1..Len(pages[1])} = Smalls
        /\ PageInvs(2) = InOrder(Larges)

(* C3 as amended: in the scenario, with the large document's order number
   different from the three others, the plan has 2 pages, page 1 holds the
   large document alone (full zone) and page 2 the three small documents
   in input order (a third of the zone each). *)
C3_LargeFirst ==
    (lpc = "done" /\ ThreeSmallOneLarge /\ LargeKeyApart) =>
        /\ Len(pages) = 2
        /\ PageInvs(1) = InOrder(Larges)
        /\ pages[1][1].allocated = zone_full
        /\ PageInvs(2) = InOrder(Smalls)
        /\ \A k \in 1..3 : pages[2][k].allocated = zone_third

C3_Witness ==
    /\ lpc = "done"
    /\ ThreeSmallOneLarge
    /\ LargeKeyApart
    /\ invoices[4].items = 20
    /\ Len(pages) = 2

(* C5: a group of at most MAX_INVOICES_PER_PAGE documents whose total
   height (allocated heights plus spacing between members) is within
   AVAILABLE_HEIGHT has all its documents on one page of the plan. *)
C5_FittingGroupOnOnePage ==
    lpc = "done" =>
        \A g \in 1..Len(groups_with_heights) :
            LET G == groups_with_heights[g]
            IN (Len(G.group) <= MAX_INVOICES_PER_PAGE
                  /\ G.height <= AVAILABLE_HEIGHT) =>
                 \E p \in 1..Len(pages) :
                     \A m \in 1..Len(G.group) : PagesOf(G.group[m]) = {p}

\* the invoice the next placement step places, as a page entry
NextEntry == PageEntry(invoices, groups_with_heights[gi].group[ii])

\* the last page takes the next invoice: its running height, the allocated
\* height of the invoice and one spacing if the page holds an invoice stay
\* within the available height, and the page holds fewer invoices than
\* the cap
LastPageTakesNext ==
    /\ pages # <<>>
    /\ page_heights[Len(pages)] + NextEntry.allocated
          + (IF page_invoice_counts[Len(pages)] > 0 THEN INVOICE_SPACING ELSE 0)
          <= AVAILABLE_HEIGHT
    /\ page_invoice_counts[Len(pages)] < MAX_INVOICES_PER_PAGE

(* C20: a placement step appends the invoice to the last page exactly when
   that page's running height plus the allocated height of the invoice,
   plus one spacing when the page holds an invoice, is within
   AVAILABLE_HEIGHT and the page holds fewer than MAX_INVOICES_PER_PAGE
   invoices; in every other case it opens a new page that starts with the
   invoice, and no other page changes. *)
C20_PlacementStep ==
    [][lpc = "placing" =>
          IF LastPageTakesNext
          THEN /\ pages' = [pages EXCEPT ![Len(pages)] = Append(@, NextEntry)]
               /\ page_invoice_counts' =
                     [page_invoice_counts EXCEPT ![Len(pages)] = @ + 1]
          ELSE /\ pages' = Append(pages, <<NextEntry>>)
               /\ page_invoice_counts' = Append(page_invoice_counts, 1)]_vars

\* a page that took a second invoice and then, with room under the cap
\* but not in height, was followed by a new page
C20_Witness ==
    /\ lpc = "done"
    /\ \E p \in 1..(Len(pages) - 1) :
          /\ Len(pages[p]) = 2
          /\ Len(pages[p]) < MAX_INVOICES_PER_PAGE
          /\ PageAllocated(p) + INVOICE_SPACING + pages[p + 1][1].allocated
                > AVAILABLE_HEIGHT

\* page p has room for the page entry e
PageTakes(p, e) == Fits(page_heights[p], page_invoice_counts[p], e.allocated)

\* the pages with room for the next invoice
PagesWithRoom == {p \in 1..Len(pages) : PageTakes(p, NextEntry)}

(* C21: a placement step puts the invoice on the first page of the plan,
   in page order, that has room for it, and opens a new page only when no
   page of the plan has room for it. *)
C21_FirstFit ==
    [][lpc = "placing" =>
          IF PagesWithRoom # {}
          THEN LET first == CHOOSE p \in PagesWithRoom :
                               \A q \in PagesWithRoom : p <= q
               IN pages' = [pages EXCEPT ![first] = Append(@, NextEntry)]
          ELSE pages' = Append(pages, <<NextEntry>>)]_vars

(* C22: a placement step changes no page but the last one: it either adds
   the invoice to the last page or opens a new page, and the invoices, the
   running height and the invoice count of every page before the last, and
   of the last page too when a new page is opened, stay as they are; no
   page of the plan is ever empty. *)
C22_PagesCloseForGood ==
    /\ [][lpc = "placing" =>
             /\ Len(pages') \in {Len(pages), Len(pages) + 1}
             /\ Len(pages') = Len(pages) => pages # <<>>
             /\ \A p \in 1..Len(pages) :
                   (p < Len(pages) \/ Len(pages') > Len(pages)) =>
                      /\ pages'[p] = pages[p]
                      /\ page_heights'[p] = page_heights[p]
                      /\ page_invoice_counts'[p] = page_invoice_counts[p]]_vars
    /\ [](\A p \in 1..Len(pages) : pages[p] # <<>>)

\* a plan of three pages, the first two closed with room under the cap
C22_Witness ==
    /\ lpc = "done"
    /\ Len(pages) = 3
    /\ Len(pages[1]) < MAX_INVOICES_PER_PAGE
    /\ Len(pages[2]) < MAX_INVOICES_PER_PAGE

\* the invoices of the plan, read page after page
RECURSIVE PlanFrom(_)
PlanFrom(p) ==
    IF p > Len(pages) THEN <<>> ELSE PageInvs(p) \o PlanFrom(p + 1)

PlanSeq == PlanFrom(1)

\* the invoices that share the order number of invoice i
GroupMates(i) ==
    {j \in 1..Len(invoices) :
        invoices[j].order_number = invoices[i].order_number}

\* total height of the group of invoice i: the allocated heights of its
\* members and one spacing between two neighbours
GroupTotal(i) ==
    SumSeq([k \in 1..Cardinality(GroupMates(i)) |->
               PageEntry(invoices, InOrder(GroupMates(i))[k]).allocated])
      + (Cardinality(GroupMates(i)) - 1) * INVOICE_SPACING

(* C23: in the finished plan read page after page, an invoice of a group
   with a larger total height never comes after an invoice of a group with
   a smaller one, and the invoices of one group follow each other without
   an invoice of another group between them. *)
C23_GroupsLargestFirst ==
    lpc = "done" =>
        /\ Len(PlanSeq) = Len(invoices)
        /\ \A a, b \in 1..Len(PlanSeq) :
              a < b => GroupTotal(PlanSeq[a]) >= GroupTotal(PlanSeq[b])
        /\ \A a, b, c \in 1..Len(PlanSeq) :
              (a < b /\ b < c /\ PlanSeq[c] \in GroupMates(PlanSeq[a])) =>
                 PlanSeq[b] \in GroupMates(PlanSeq[a])

\* three invoices: the second and third form the higher group and come
\* first in the plan
C23_Witness ==
    /\ lpc = "done"
    /\ Len(invoices) = 3
    /\ PlanSeq = <<2, 3, 1>>
    /\ GroupMates(2) = {2, 3}
    /\ GroupTotal(2) > GroupTotal(1)

\* the place of invoice i in the plan read page after page
PlaceInPlan(i) == CHOOSE a \in 1..Len(PlanSeq) : PlanSeq[a] = i

(* C24: of two invoices with the same order number, the one that comes
   first in the list handed to _layout_invoices is on an earlier page of
   the plan than the other, or before it on the same page, also when the
   group is spread over several pages. *)
C24_GroupOrderKept ==
    lpc = "done" =>
        \A i, j \in 1..Len(invoices) :
           (i < j /\ j \in GroupMates(i)) =>
              /\ PagesOf(i) # {} /\ PagesOf(j) # {}
              /\ \A p \in PagesOf(i), q \in PagesOf(j) :
                    \/ p < q
                    \/ p = q /\ PlaceInPlan(i) < PlaceInPlan(j)

\* a group of three invoices on two pages
C24_Witness ==
    /\ lpc = "done"
    /\ Len(invoices) = 3
    /\ GroupMates(1) = {1, 2, 3}
    /\ PagesOf(1) = {1}
    /\ PagesOf(2) = {1}
    /\ PagesOf(3) = {2}

\* an invoice higher than the page
Oversize(i) == _calculate_invoice_height(invoices[i]) > AVAILABLE_HEIGHT

(* C16: a call of _layout_invoices comes to its end with a page plan
   whatever the list of invoices is; for the empty list the plan has no
   page, and an invoice higher than the page is in the plan like any other,
   with the full zone as its allocated height. *)
C16_LayoutReturns ==
    /\ <>(lpc = "done")
    /\ [](lpc = "done" =>
            /\ invoices = <<>> => pages = <<>>
            /\ \A i \in 1..Len(invoices) :
                  Oversize(i) =>
                     \E pk \in PagePositions :
                        /\ pages[pk[1]][pk[2]].inv = i
                        /\ pages[pk[1]][pk[2]].allocated = zone_full
            /\ (Len(invoices) = 1 /\ Oversize(1)) =>
                  pages = << <<PageEntry(invoices, 1)>> >>)

\* the plan of a single invoice of 43 items
C16_Witness ==
    /\ lpc = "done"
    /\ Len(invoices) = 1
    /\ Oversize(1)
    /\ Len(pages) = 1
    /\ pages[1][1].allocated = zone_full
    /\ pages[1][1].real > zone_full

-----------------------------------------------------------------------------
(* _get_size_category on its own, for two heights at a time *)

\* heights are sampled every HeightStep up to MaxHeightSteps steps
MaxHeightSteps == 17
HeightStep == 50 * pt

\* the sampled heights, and the heights at and next to every zone limit
Heights ==
    {j * HeightStep : j \in 0..MaxHeightSteps}
      \cup {z + d : z \in {zone_third, zone_half, zone_full}, d \in {-1, 0, 1}}

InitQuant ==
    /\ IdleLayout
    /\ IdleInfer
    /\ IdleReader
    /\ IdleGroup
    /\ IdleHeight
    /\ qpc = "call"
    /\ qheight \in Heights \X Heights
    /\ qresult = <<>>

Quantize ==
    /\ qpc = "call"
    /\ qpc' = "return"
    /\ qresult' = <<_get_size_category(qheight[1]),
                    _get_size_category(qheight[2])>>
    /\ UNCHANGED <<qheight, notQuantVars>>

NextQuant == Quantize

SpecQuant == InitQuant /\ [][NextQuant]_vars

\* the zone a height lies in, by the limits of the claim, without division:
\* with Z the page height left after the reserved spacing, 1 is h <= Z/3,
\* 2 is Z/3 < h <= Z/2, 3 is anything higher
ZoneOf(h) ==
    LET Z == AVAILABLE_HEIGHT - (MAX_INVOICES_PER_PAGE - 1) * INVOICE_SPACING
    IN IF 3 * h <= Z THEN 1 ELSE IF 2 * h <= Z THEN 2 ELSE 3

(* C4: _get_size_category is a step function of the height: (third, Z/3)
   up to Z/3, (half, Z/2) up to Z/2, (full, Z) above, also above Z; the
   allocation is the smallest zone that is >= the height when there is
   one; two heights of one zone get the same tier, and a larger height
   never gets a smaller allocation. *)
C4_Quantize ==
    qpc = "return" =>
        LET Z == AVAILABLE_HEIGHT - (MAX_INVOICES_PER_PAGE - 1) * INVOICE_SPACING
        IN /\ \A k \in 1..2 :
                LET h == qheight[k]
                    r == qresult[k]
                IN /\ ZoneOf(h) = 1 => r.category = "third" /\ 3 * r.allocated = Z
                   /\ ZoneOf(h) = 2 => r.category = "half" /\ 2 * r.allocated = Z
                   /\ ZoneOf(h) = 3 => r.category = "full" /\ r.allocated = Z
                   /\ h <= Z => r.allocated >= h
                   /\ \A z \in {Z \div 3, Z \div 2, Z} :
                        z >= h => r.allocated <= z
           /\ ZoneOf(qheight[1]) = ZoneOf(qheight[2]) =>
                qresult[1].category = qresult[2].category
           /\ qheight[1] <= qheight[2] =>
                qresult[1].allocated <= qresult[2].allocated

C4_Witness ==
    /\ qpc = "return"
    /\ qheight[1] = zone_third
    /\ qheight[2] > zone_full
    /\ qresult[1].category = "third"
    /\ qresult[2].category = "full"

-----------------------------------------------------------------------------
(* Values of DBF records, as dbfread hands them to modules/dbf_reader.py *)

\* A field value is a string (a character field), a number (a numeric
\* field) or None (an empty numeric or date field).  A string is a list of
\* characters, so that strip(), len() and float() act on its text.
StrVal(chars) == [t |-> "str", s |-> chars, n |-> 0]
NumVal(k) == [t |-> "num", s |-> <<>>, n |-> k]
NoneVal == [t |-> "none", s |-> <<>>, n |-> 0]

\* Python's None where a field name or a path is expected
PyNone == "<None>"

Whitespace == {" "}

RECURSIVE LStrip(_)
LStrip(chars) ==
    IF chars # <<>> /\ Head(chars) \in Whitespace
    THEN LStrip(Tail(chars)) ELSE chars

RECURSIVE RStrip(_)
RStrip(chars) ==
    IF chars # <<>> /\ chars[Len(chars)] \in Whitespace
    THEN RStrip(SubSeq(chars, 1, Len(chars) - 1)) ELSE chars

\* str.strip()
Strip(chars) == RStrip(LStrip(chars))

Range(q) == {q[k] : k \in 1..Len(q)}

Abs(x) == IF x < 0 THEN -x ELSE x

-----------------------------------------------------------------------------
(* InvoiceDBFReader._detect_field_structure *)

\* the document type with the field structure of its own
MRN == <<"3", "H", "8">>

StandardFields ==
    [item |-> "SP1031", unit |-> "SP1032", quantity |-> "SP1033",
     price |-> "SP4505", amount |-> "SP1040"]

MRNFields ==
    [item |-> "SP4533", unit |-> "SP4537", quantity |-> "SP4535",
     price |-> "SP4545", amount |-> "SP4542"]

\* what the function hands back: a mapping, or the exception it raised
Returned(mapping) == [error |-> "", mapping |-> mapping]
Raised(exception) == [error |-> exception, mapping |-> <<>>]

\* sorted(numeric_fields, key=value): stable, ascending
InsertAsc(rec, sorted, f) ==
    LET before == {j \in 1..Len(sorted) : rec[sorted[j]].n <= rec[f].n}
        n == Cardinality(before)
    IN SubSeq(sorted, 1, n) \o <<f>> \o SubSeq(sorted, n + 1, Len(sorted))

RECURSIVE SortAscFrom(_, _, _, _)
SortAscFrom(rec, list, i, acc) ==
    IF i > Len(list) THEN acc
    ELSE SortAscFrom(rec, list, i + 1, InsertAsc(rec, acc, list[i]))

SortedNumeric(rec, numeric_fields) == SortAscFrom(rec, numeric_fields, 1, <<>>)

\* abs(value - expected_price) of a candidate, times qty_val when the
\* expected price is amt_val / qty_val (one positive factor for all
\* candidates of a call, so the comparisons are those of the code)
PriceDiff(value, amt_val, qty_val) ==
    IF qty_val > 0 THEN Abs(value * qty_val - amt_val) ELSE Abs(value)

\* mutant: a candidate as close as the best one so far replaces it
RECURSIVE BestPriceLast(_, _, _, _, _, _)
BestPriceLast(rec, cands, i, amt_val, qty_val, best) ==
    IF i > Len(cands) THEN best.field
    ELSE LET diff == PriceDiff(rec[cands[i]].n, amt_val, qty_val)
         IN IF best.field = PyNone \/ diff <= best.diff
            THEN BestPriceLast(rec, cands, i + 1, amt_val, qty_val,
                               [field |-> cands[i], diff |-> diff])
            ELSE BestPriceLast(rec, cands, i + 1, amt_val, qty_val, best)

\* the loop over sorted_numeric[1:-1]; best.field = PyNone is best_diff = inf
RECURSIVE BestPriceFrom(_, _, _, _, _, _)
BestPriceFrom(rec, cands, i, amt_val, qty_val, best) ==
    IF i > Len(cands) THEN best.field
    ELSE LET diff == PriceDiff(rec[cands[i]].n, amt_val, qty_val)
         IN IF best.field = PyNone \/ diff < best.diff
            THEN BestPriceFrom(rec, cands, i + 1, amt_val, qty_val,
                               [field |-> cands[i], diff |-> diff])
            ELSE BestPriceFrom(rec, cands, i + 1, amt_val, qty_val, best)

\* mutant: the positional fallback overwrites every role
FinalFallbackAlways(fields, m) ==
    [item |-> IF Len(fields) > 2 THEN fields[3] ELSE PyNone,
     unit |-> IF Len(fields) > 3 THEN fields[4] ELSE PyNone,
     quantity |-> IF Len(fields) > 4 THEN fields[5] ELSE PyNone,
     price |-> IF Len(fields) > 5 THEN fields[6] ELSE PyNone,
     amount |-> IF Len(fields) > 6 THEN fields[7] ELSE PyNone]

\* the final fallback by position
FinalFallback(fields, m) ==
    [item |-> IF m.item # PyNone THEN m.item
              ELSE IF Len(fields) > 2 THEN fields[3] ELSE PyNone,
     unit |-> IF m.unit # PyNone THEN m.unit
              ELSE IF Len(fields) > 3 THEN fields[4] ELSE PyNone,
     quantity |-> IF m.quantity # PyNone THEN m.quantity
                  ELSE IF Len(fields) > 4 THEN fields[5] ELSE PyNone,
     price |-> IF m.price # PyNone THEN m.price
               ELSE IF Len(fields) > 5 THEN fields[6] ELSE PyNone,
     amount |-> IF m.amount # PyNone THEN m.amount
                ELSE IF Len(fields) > 6 THEN fields[7] ELSE PyNone]

\* a role takes the named field when the table has it
Prefer(fields, name, otherwise) ==
    IF name \in Range(fields) THEN name ELSE otherwise

\* mutant: the names of the standard invoice are tried after the MRN names
\* and win over them
ProfileFieldsStandardLast(fields, doc_type, m) ==
    LET r == IF doc_type = MRN
             THEN [k \in DOMAIN m |-> Prefer(fields, MRNFields[k], m[k])]
             ELSE m
    IN [item |-> Prefer(fields, StandardFields.item, r.item),
        unit |-> Prefer(fields, StandardFields.unit, r.unit),
        quantity |-> Prefer(fields, StandardFields.quantity, r.quantity),
        price |-> Prefer(fields, StandardFields.price, r.price),
        amount |-> Prefer(fields, StandardFields.amount, r.amount)]

\* the standard 1C fields, then for an MRN its own fields
ProfileFields(fields, doc_type, m) ==
    LET std == [item |-> Prefer(fields, StandardFields.item, m.item),
                unit |-> Prefer(fields, StandardFields.unit, m.unit),
                quantity |-> Prefer(fields, StandardFields.quantity, m.quantity),
                price |-> Prefer(fields, StandardFields.price, m.price),
                amount |-> Prefer(fields, StandardFields.amount, m.amount)]
    IN IF doc_type = MRN
       THEN [k \in DOMAIN std |-> Prefer(fields, MRNFields[k], std[k])]
       ELSE std

\* the heuristic on the numeric fields, entered with at least 3 of them
Heuristic(rec, numeric_fields, m) ==
    LET sorted_numeric == SortedNumeric(rec, numeric_fields)
        last == Len(sorted_numeric)
        quantity_field == IF m.quantity = PyNone THEN sorted_numeric[2]
                          ELSE m.quantity
        amount_field == IF m.amount = PyNone THEN sorted_numeric[last]
                        ELSE m.amount
        qty_val == rec[quantity_field]
        amt_val == rec[sorted_numeric[last]].n
        best_price_field ==
            BestPriceFrom(rec, SubSeq(sorted_numeric, 2, last - 1), 1,
                          amt_val, qty_val.n,
                          [field |-> PyNone, diff |-> 0])
    IN IF m.price # PyNone
       THEN Returned([m EXCEPT !.quantity = quantity_field,
                               !.amount = amount_field])
       ELSE IF qty_val.t # "num"
            \* qty_val > 0 on None or on a string
            THEN Raised("TypeError")
            ELSE Returned([m EXCEPT
                     !.quantity = quantity_field,
                     !.amount = amount_field,
                     !.price = IF best_price_field # PyNone
                               THEN best_price_field
                               ELSE sorted_numeric[2]])

_detect_field_structure(table, doc_type) ==
    IF table.records = <<>>
    THEN Raised("ValueError")
    ELSE
    LET fields == table.fields
        first_record == table.records[1]
        IsData(f) == f \notin {"IDDOC", "LINENO"}
        IsCode(f) == /\ IsData(f)
                     /\ first_record[f].t = "str"
                     /\ Len(Strip(first_record[f].s)) \in 1..5
        IsNumeric(f) == /\ IsData(f)
                        /\ first_record[f].t = "num"
                        /\ first_record[f].n > 0
        string_fields == SelectSeq(fields, IsCode)
        numeric_fields == SelectSeq(fields, IsNumeric)
        byValue ==
            [item |-> IF Len(string_fields) >= 1 THEN string_fields[1]
                      ELSE PyNone,
             unit |-> IF Len(string_fields) >= 2 THEN string_fields[2]
                      ELSE PyNone,
             quantity |-> PyNone, price |-> PyNone, amount |-> PyNone]
        byName == ProfileFields(fields, doc_type, byValue)
        guessed ==
            IF /\ doc_type # MRN
               /\ PyNone \in {byName.quantity, byName.price, byName.amount}
               /\ Len(numeric_fields) >= 3
            THEN Heuristic(first_record, numeric_fields, byName)
            ELSE Returned(byName)
    IN IF guessed.error # ""
       THEN guessed
       ELSE Returned(FinalFallback(fields, guessed.mapping))

-----------------------------------------------------------------------------
(* _detect_field_structure on its own *)

Roles == <<"item", "unit", "quantity", "price", "amount">>

\* names of the data columns of a table without the known fields
PlainFields == <<"F1", "F2", "F3", "F4", "F5">>

\* the data columns of a table that names the roles in `present` as the
\* profile does and the others plainly
DataColumns(profile, present) ==
    [c \in 1..5 |-> IF c \in present THEN profile[Roles[c]] ELSE PlainFields[c]]

\* which roles carry the profile's names: all, none, or all but one
PresentSets == {1..5, {}} \cup {(1..5) \ {c} : c \in 1..5}

\* a table declares IDDOC, LINENO and five data columns, or the five
\* columns of both profiles, or fewer than five plain columns
FieldLists ==
    {<<"IDDOC", "LINENO">> \o DataColumns(p, S) :
        p \in {StandardFields, MRNFields}, S \in PresentSets}
      \cup {<<"IDDOC", "LINENO">> \o DataColumns(StandardFields, 1..5)
              \o DataColumns(MRNFields, 1..5),
            <<"IDDOC", "LINENO">> \o DataColumns(MRNFields, 1..5)
              \o DataColumns(StandardFields, 1..5)}
      \cup {<<"IDDOC", "LINENO">> \o SubSeq(PlainFields, 1, m) : m \in 0..4}

\* values of a data column in the sampled record: a padded code, a string
\* too long for a code, numbers, None
SampleValues ==
    {StrVal(<<" ", "A">>), StrVal(<<"A", "B", "C", "D", "E", "F">>),
     NumVal(0), NumVal(1), NumVal(2), NumVal(4), NumVal(6), NoneVal}

\* values of the first two data columns, where 1C keeps the codes
CodeColumnValues ==
    {StrVal(<<" ", "A">>), StrVal(<<"A", "B", "C", "D", "E", "F">>),
     NumVal(2), NumVal(4), NoneVal}

\* the record of a table: column c and column c + 5 hold values[c]
SampleRecord(fields, values) ==
    [f \in Range(fields) |->
        IF f \in {"IDDOC", "LINENO"} THEN StrVal(<<"D", "1">>)
        ELSE LET c == CHOOSE k \in 1..Len(fields) : fields[k] = f
             IN values[((c - 3) % 5) + 1]]

DocTypes == {<<"S", "3">>, MRN}

\* the values of the five data columns, the columns a table lacks at None
SampleColumns(fields) ==
    {codes @@ others :
        codes \in [{c \in 1..2 : c <= Len(fields) - 2} -> CodeColumnValues],
        others \in [{c \in 3..5 : c <= Len(fields) - 2} -> SampleValues]}

InitInfer ==
    /\ IdleLayout
    /\ IdleQuant
    /\ IdleReader
    /\ IdleGroup
    /\ IdleHeight
    /\ ipc = "call"
    /\ idoc_type \in DocTypes
    /\ \E fields \in FieldLists :
          \/ itable = [fields |-> fields, records |-> <<>>]
          \/ \E columns \in SampleColumns(fields) :
                itable = [fields |-> fields,
                          records |-> <<SampleRecord(fields, columns)>>]
    /\ iresult = <<>>

DetectFieldStructure ==
    /\ ipc = "call"
    /\ ipc' = "return"
    /\ iresult' = _detect_field_structure(itable, idoc_type)
    /\ UNCHANGED <<itable, idoc_type, notInferVars>>

NextInfer == DetectFieldStructure

SpecInfer == InitInfer /\ [][NextInfer]_vars

\* the profile a document type is recognized by
ProfileOf(doc_type) == IF doc_type = MRN THEN MRNFields ELSE StandardFields

(* C8: for a table that declares the five field names of its document
   type's profile and has a record, _detect_field_structure returns
   exactly these names for item, unit, quantity, price and amount, whatever
   the values of the record. *)
C8_ProfileWins ==
    (/\ ipc = "return"
     /\ itable.records # <<>>
     /\ \A k \in DOMAIN ProfileOf(idoc_type) :
           ProfileOf(idoc_type)[k] \in Range(itable.fields)) =>
        /\ iresult.error = ""
        /\ iresult.mapping = ProfileOf(idoc_type)

C8_Witness ==
    /\ ipc = "return"
    /\ idoc_type = MRN
    /\ Len(itable.fields) = 12
    /\ itable.records # <<>>
    /\ itable.records[1]["SP4533"] = NumVal(4)
    /\ itable.records[1]["SP4535"] = StrVal(<<" ", "A">>)
    /\ iresult.mapping = MRNFields

-----------------------------------------------------------------------------
(* The heuristic and the positional fallback of _detect_field_structure *)

NumericRoles3 == {"quantity", "price", "amount"}

\* the sampled record
Sampled == itable.records[1]

\* the positive numeric columns of the sampled record, in declaration order
Candidates ==
    LET IsCandidate(f) == /\ f \notin {"IDDOC", "LINENO"}
                          /\ Sampled[f].t = "num"
                          /\ Sampled[f].n > 0
    IN SelectSeq(itable.fields, IsCandidate)

\* the candidates in ascending order of value
CandidatesByValue == SortedNumeric(Sampled, Candidates)

\* the field a profile names for role r, when the table declares it
NamedFor(r) ==
    IF idoc_type = MRN /\ MRNFields[r] \in Range(itable.fields)
    THEN MRNFields[r]
    ELSE IF StandardFields[r] \in Range(itable.fields)
         THEN StandardFields[r] ELSE PyNone

\* the call returned a mapping for a table with a record
Mapped == ipc = "return" /\ itable.records # <<>> /\ iresult.error = ""

\* no profile names a numeric role of the table and the sampled record
\* has at least 3 candidates
HeuristicAlone ==
    /\ Mapped
    /\ idoc_type # MRN
    /\ \A r \in NumericRoles3 : NamedFor(r) = PyNone
    /\ Len(Candidates) >= 3

\* how far the value of field f is from amount / quantity, times quantity
FromExpected(f, quantity_field, amount_field) ==
    Abs(Sampled[f].n * Sampled[quantity_field].n - Sampled[amount_field].n)

(* C25: for a table without the profile names of the numeric roles and a
   sampled record with at least 3 positive numeric columns, quantity is
   the column with the second-smallest value, amount the column with the
   largest, and price a column other than these two whose value is closest
   to amount / quantity among the columns other than these two. *)
C25_NumericHeuristic ==
    HeuristicAlone =>
        LET m == iresult.mapping
            remaining == Range(Candidates) \ {m.quantity, m.amount}
        IN /\ m.quantity = CandidatesByValue[2]
           /\ m.amount = CandidatesByValue[Len(CandidatesByValue)]
           /\ m.price \in remaining
           /\ \A f \in remaining :
                 FromExpected(m.price, m.quantity, m.amount)
                    <= FromExpected(f, m.quantity, m.amount)

\* the heuristic chose the price: no profile name for it, a kind other than
\* the MRN, three numeric candidates or more
PriceByHeuristic ==
    /\ Mapped
    /\ idoc_type # MRN
    /\ NamedFor("price") = PyNone
    /\ Len(Candidates) >= 3

\* the candidates the price loop goes through
PriceCandidates ==
    SubSeq(CandidatesByValue, 2, Len(CandidatesByValue) - 1)

\* distance of a candidate from amount / quantity, in units of 1 / quantity
Closeness(f) ==
    PriceDiff(Sampled[f].n,
              Sampled[CandidatesByValue[Len(CandidatesByValue)]].n,
              Sampled[iresult.mapping.quantity].n)

Closest ==
    {f \in Range(PriceCandidates) :
        \A g \in Range(PriceCandidates) : Closeness(f) <= Closeness(g)}

DeclaredAt(f) == CHOOSE k \in 1..Len(itable.fields) : itable.fields[k] = f

FirstDeclared(S) == CHOOSE f \in S : \A g \in S : DeclaredAt(f) <= DeclaredAt(g)

\* C26 as stated: of the candidates equally close to amount / quantity,
\* the price is the one declared first in the table
C26_TieByDeclaration ==
    (PriceByHeuristic /\ Cardinality(Closest) >= 2) =>
        iresult.mapping.price = FirstDeclared(Closest)

(* C26: when several candidates of the price loop are equally close to
   amount / quantity, the price goes to the one with the smallest sampled
   value, and between candidates of the same value to the one declared
   first in the table. *)
C26_TieBySmallestValue ==
    (PriceByHeuristic /\ Cardinality(Closest) >= 2) =>
        /\ iresult.mapping.price \in Closest
        /\ \A g \in Closest \ {iresult.mapping.price} :
              \/ Sampled[iresult.mapping.price].n < Sampled[g].n
              \/ /\ Sampled[iresult.mapping.price].n = Sampled[g].n
                 /\ DeclaredAt(iresult.mapping.price) < DeclaredAt(g)

\* a tie between candidates of different values, won by the later declared
C26_Witness ==
    /\ PriceByHeuristic
    /\ Cardinality(Closest) >= 2
    /\ iresult.mapping.price # FirstDeclared(Closest)
    /\ Sampled[iresult.mapping.price].n < Sampled[FirstDeclared(Closest)].n

\* the fields whose sampled value is a short code
CodeCandidates ==
    LET IsCode(f) == /\ f \notin {"IDDOC", "LINENO"}
                     /\ Sampled[f].t = "str"
                     /\ Len(Strip(Sampled[f].s)) \in 1..5
    IN SelectSeq(itable.fields, IsCode)

\* the numeric heuristic is entered
HeuristicEntered ==
    /\ idoc_type # MRN
    /\ \E r \in NumericRoles3 : NamedFor(r) = PyNone
    /\ Len(Candidates) >= 3

\* the profile or the heuristic gave the role a field
Assigned(r) ==
    \/ NamedFor(r) # PyNone
    \/ r = "item" /\ Len(CodeCandidates) >= 1
    \/ r = "unit" /\ Len(CodeCandidates) >= 2
    \/ r \in NumericRoles3 /\ HeuristicEntered

\* the field at the role's position, when the table is that long
Positional(r) ==
    LET at == [item |-> 3, unit |-> 4, quantity |-> 5, price |-> 6,
               amount |-> 7]
    IN IF Len(itable.fields) >= at[r] THEN itable.fields[at[r]] ELSE PyNone

(* C27: a role takes the field at its position (item 3rd, unit 4th,
   quantity 5th, price 6th, amount 7th field of the table) exactly when
   neither the profile nor the heuristic assigned it; a role they assigned
   keeps the field they gave it. *)
C27_FallbackOnlyUnassigned ==
    Mapped =>
        \A r \in Range(Roles) :
           IF ~Assigned(r) THEN iresult.mapping[r] = Positional(r)
           ELSE IF NamedFor(r) # PyNone THEN iresult.mapping[r] = NamedFor(r)
           ELSE IF r = "item" THEN iresult.mapping[r] = CodeCandidates[1]
           ELSE IF r = "unit" THEN iresult.mapping[r] = CodeCandidates[2]
           ELSE iresult.mapping[r] \in Range(Candidates)

\* one role filled by position next to an assigned role that kept a field
\* other than the one at its position
C27_Witness ==
    /\ Mapped
    /\ \E r \in Range(Roles) :
          /\ ~Assigned(r)
          /\ iresult.mapping[r] # PyNone
    /\ \E r \in Range(Roles) :
          /\ Assigned(r)
          /\ Positional(r) # PyNone
          /\ iresult.mapping[r] # Positional(r)

(* C29: in every mapping _detect_field_structure returns, the fields of
   the roles quantity, price and amount, where the role has a field, are
   three different fields of the table; the price role never has the field
   of the quantity role. *)
C29_NumericRolesDistinct ==
    Mapped =>
        \A r1, r2 \in NumericRoles3 :
           (/\ r1 # r2
            /\ iresult.mapping[r1] # PyNone
            /\ iresult.mapping[r2] # PyNone) =>
              iresult.mapping[r1] # iresult.mapping[r2]

-----------------------------------------------------------------------------
(* The database directory and Python's dict and str, as dbf_reader.py
   uses them *)

\* A file of the directory: DH1011.DBF is [stem |-> "DH", num |-> 1011].
\* All names are upper case and end in .DBF.
FileName(stem, num) == [stem |-> stem, num |-> num]
JournalFile == FileName("1SJOURN", 0)
ContractorFile == FileName("SC", 174)

\* None where a path is expected
NoPath == FileName("<None>", 0)

\* os.path.exists(os.path.join(database_path, name))
PathExists(d, name) == d.exists /\ name \in Range(d.dir)

\* DBF(path) raises when the file is missing or is no DBF table
CanOpen(d, name) == PathExists(d, name) /\ d.file[name].readable

\* record.get(field, default)
Get(record, field, default) ==
    IF field \in DOMAIN record THEN record[field] ELSE default

\* record.get(field, '').strip() of a character field
GetStripped(record, field) == Strip(Get(record, field, StrVal(<<>>)).s)

\* dict[key] = value
DictPut(dict, key, value) ==
    [k \in DOMAIN dict \cup {key} |-> IF k = key THEN value ELSE dict[k]]

\* str.upper() on the letters the model writes in lower case
UpperOf(ch) ==
    CASE ch = "d" -> "D" [] ch = "r" -> "R" [] ch = "n" -> "N"
      [] ch = "s" -> "S" [] ch = "k" -> "K" [] OTHER -> ch

Upper(chars) == [k \in 1..Len(chars) |-> UpperOf(chars[k])]

\* sub in chars
Contains(chars, sub) ==
    \E k \in 0..(Len(chars) - Len(sub)) :
        SubSeq(chars, k + 1, k + Len(sub)) = sub

\* The document numbers and descriptions of 1C are Cyrillic; the model
\* writes them in Latin letters: DRN, MRN, RNK, RN-, NAKL for the prefixes
\* of an outgoing invoice, SRN for the warehouse invoice that is left out,
\* RASHODNAYA and NAKLADNAYA for the words of a description.
InvoicePrefixes ==
    {<<"D", "R", "N">>, <<"M", "R", "N">>, <<"R", "N", "K">>,
     <<"R", "N", "-">>, <<"N", "A", "K", "L">>}

DescriptionKeywords ==
    {<<"R", "N", "K">>,
     <<"R", "A", "S", "H", "O", "D", "N", "A", "Y", "A">>,
     <<"N", "A", "K", "L", "A", "D", "N", "A", "Y", "A">>}

ExcludedMarker == <<"S", "R", "N">>

\* the default document type of an invoice
DefaultDocType == <<"S", "3">>

\* the document types of the model, in the order of Python's str
DocTypesSorted == <<MRN, DefaultDocType>>

\* sorted(set of document types)
SortedTypes(types) ==
    LET In(t) == t \in types IN SelectSeq(DocTypesSorted, In)

\* the digits of base 36: int(char) for a digit, ord(char) - ord('A') + 10
\* for a letter
Base36Alphabet ==
    <<"0", "1", "2", "3", "4", "5", "6", "7", "8", "9", "A", "B", "C", "D",
      "E", "F", "G", "H", "I", "J", "K", "L", "M", "N", "O", "P", "Q", "R",
      "S", "T", "U", "V", "W", "X", "Y", "Z">>

Base36Digit(ch) ==
    (CHOOSE k \in 1..Len(Base36Alphabet) : Base36Alphabet[k] = ch) - 1

RECURSIVE DecodeFrom(_, _, _)
DecodeFrom(code, i, result) ==
    IF i > Len(code) THEN result
    ELSE DecodeFrom(code, i + 1, result * 36 + Base36Digit(code[i]))

_decode_base36(code) == DecodeFrom(Upper(code), 1, 0)

-----------------------------------------------------------------------------
(* InvoiceDBFReader._detect_invoice_files *)

\* method 1: the types of the journal records whose DESCR has a keyword
TypesByDescription(journal) ==
    {GetStripped(journal.records[k], "IDDOCDEF") : k \in
        {j \in 1..Len(journal.records) :
            /\ \E w \in DescriptionKeywords :
                  Contains(Upper(GetStripped(journal.records[j], "DESCR")), w)
            /\ GetStripped(journal.records[j], "IDDOCDEF") # <<>>}}

\* method 2: the types of the journal records numbered like an invoice
TypesByNumber(journal) ==
    {GetStripped(journal.records[k], "IDDOCDEF") : k \in
        {j \in 1..Len(journal.records) :
            LET docno == Upper(GetStripped(journal.records[j], "DOCNO"))
            IN /\ GetStripped(journal.records[j], "IDDOCDEF") # <<>>
               /\ docno # <<>>
               /\ \E prefix \in InvoicePrefixes : Contains(docno, prefix)
               /\ ~Contains(docno, ExcludedMarker)}}

InvoiceTypes(journal) ==
    LET by_descr == IF "DESCR" \in Range(journal.fields)
                    THEN TypesByDescription(journal) ELSE {}
        by_number == IF by_descr # {} THEN by_descr ELSE TypesByNumber(journal)
    IN IF by_number # {} THEN by_number ELSE {DefaultDocType}

\* the files of a document type
FilesOfType(doc_type_code) ==
    LET file_num == _decode_base36(doc_type_code)
    IN [header_path |-> FileName("DH", file_num),
        table_path |-> FileName("DT", file_num),
        file_num |-> file_num]

HasFiles(d, doc_type_code) ==
    /\ PathExists(d, FilesOfType(doc_type_code).header_path)
    /\ PathExists(d, FilesOfType(doc_type_code).table_path)

\* [error, invoice_doc_types, invoice_files]; invoice_files is the list of
\* the dict's keys in insertion order
_detect_invoice_files(d) ==
    IF ~CanOpen(d, JournalFile)
    THEN [error |-> "ValueError", invoice_doc_types |-> <<>>,
          invoice_files |-> <<>>]
    ELSE LET types == SortedTypes(InvoiceTypes(d.file[JournalFile]))
             Kept(t) == HasFiles(d, t)
             kept == SelectSeq(types, Kept)
         IN [error |-> IF kept = <<>> THEN "ValueError" ELSE "",
             invoice_doc_types |-> types,
             invoice_files |-> kept]

-----------------------------------------------------------------------------
(* InvoiceDBFReader._find_catalogs_for_type *)

\* the lookup files in the order of os.listdir
ScFiles(d) == LET IsSc(name) == name.stem = "SC" IN SelectSeq(d.dir, IsSc)

\* the sampled code of a role: '' unless the mapped field holds a string
CodeSample(first_record, field) ==
    IF field # PyNone /\ Get(first_record, field, NoneVal).t = "str"
    THEN Strip(first_record[field].s)
    ELSE <<>>

\* the records of one lookup file: found is [items, units]
RECURSIVE ScanRecords(_, _, _, _, _, _)
ScanRecords(sc_file, records, i, item_code_sample, unit_code_sample, found) ==
    IF i > Len(records) \/ (found.items # NoPath /\ found.units # NoPath)
    THEN found
    ELSE LET rec_id == GetStripped(records[i], "ID")
             items == IF /\ item_code_sample # <<>>
                         /\ rec_id = item_code_sample
                         /\ found.items = NoPath
                      THEN sc_file ELSE found.items
             units == IF /\ unit_code_sample # <<>>
                         /\ rec_id = unit_code_sample
                         /\ found.units = NoPath
                      THEN sc_file ELSE found.units
         IN ScanRecords(sc_file, records, i + 1, item_code_sample,
                        unit_code_sample, [items |-> items, units |-> units])

\* the loop over the lookup files; a file that cannot be read is skipped
RECURSIVE ScanFiles(_, _, _, _, _, _)
ScanFiles(d, sc_files, i, item_code_sample, unit_code_sample, found) ==
    IF i > Len(sc_files) \/ (found.items # NoPath /\ found.units # NoPath)
    THEN found
    ELSE ScanFiles(d, sc_files, i + 1, item_code_sample, unit_code_sample,
            IF d.file[sc_files[i]].readable
            THEN ScanRecords(sc_files[i], d.file[sc_files[i]].records, 1,
                             item_code_sample, unit_code_sample, found)
            ELSE found)

\* mutant: a units catalog that was not found is the first lookup file
FallbackUnitsFirstFile(sc_files, found) ==
    LET items == IF found.items = NoPath /\ sc_files # <<>>
                 THEN sc_files[1] ELSE found.items
        units == IF found.units = NoPath /\ sc_files # <<>>
                 THEN sc_files[1] ELSE found.units
    IN [items |-> items, units |-> units]

\* the fallback: the first lookup file for the items, the items catalog
\* for the units
Fallback(sc_files, found) ==
    LET items == IF found.items = NoPath /\ sc_files # <<>>
                 THEN sc_files[1] ELSE found.items
        units == IF found.units = NoPath /\ sc_files # <<>>
                 THEN items ELSE found.units
    IN [items |-> items, units |-> units]

\* [error, catalogs]
_find_catalogs_for_type(d, table, field_mapping) ==
    IF table.records = <<>>
    THEN [error |-> "ValueError", catalogs |-> <<>>]
    ELSE LET first_record == table.records[1]
             item_code_sample == CodeSample(first_record, field_mapping.item)
             unit_code_sample == CodeSample(first_record, field_mapping.unit)
             sc_files == ScFiles(d)
             found == ScanFiles(d, sc_files, 1, item_code_sample,
                                unit_code_sample,
                                [items |-> NoPath, units |-> NoPath])
         IN [error |-> "", catalogs |-> Fallback(sc_files, found)]

-----------------------------------------------------------------------------
(* InvoiceDBFReader._load_all_catalogs *)

RECURSIVE LoadItemsFrom(_, _, _)
LoadItemsFrom(records, i, items_catalog) ==
    IF i > Len(records) THEN items_catalog
    ELSE LET item_id == GetStripped(records[i], "ID")
             full_name == GetStripped(records[i], "SP149")
             short_name == GetStripped(records[i], "DESCR")
         IN LoadItemsFrom(records, i + 1,
               IF item_id # <<>>
               THEN DictPut(items_catalog, item_id,
                       [name |-> IF full_name # <<>> THEN full_name
                                 ELSE short_name,
                        code |-> GetStripped(records[i], "CODE")])
               ELSE items_catalog)

RECURSIVE LoadUnitsFrom(_, _, _)
LoadUnitsFrom(records, i, units_catalog) ==
    IF i > Len(records) THEN units_catalog
    ELSE LET unit_id == GetStripped(records[i], "ID")
         IN LoadUnitsFrom(records, i + 1,
               IF unit_id # <<>>
               THEN DictPut(units_catalog, unit_id,
                            GetStripped(records[i], "DESCR"))
               ELSE units_catalog)

RECURSIVE LoadContractorsFrom(_, _, _)
LoadContractorsFrom(records, i, catalog) ==
    IF i > Len(records) THEN catalog
    ELSE LET contractor_id == GetStripped(records[i], "ID")
         IN LoadContractorsFrom(records, i + 1,
               IF contractor_id # <<>>
               THEN DictPut(catalog, contractor_id,
                       [number |-> GetStripped(records[i], "DESCR"),
                        code |-> GetStripped(records[i], "CODE")])
               ELSE catalog)

\* a catalog that is None, missing or unreadable loads as the empty dict
LoadItems(d, path) ==
    IF path # NoPath /\ CanOpen(d, path)
    THEN LoadItemsFrom(d.file[path].records, 1, <<>>) ELSE <<>>

LoadUnits(d, path) ==
    IF path # NoPath /\ CanOpen(d, path)
    THEN LoadUnitsFrom(d.file[path].records, 1, <<>>) ELSE <<>>

_load_contractor_catalog(d) ==
    IF CanOpen(d, ContractorFile)
    THEN LoadContractorsFrom(d.file[ContractorFile].records, 1, <<>>)
    ELSE <<>>

-----------------------------------------------------------------------------
(* InvoiceDBFReader._decode_item, _get_contractor_number, _get_total_amount *)

\* bool(value)
Truthy(value) ==
    \/ value.t = "str" /\ value.s # <<>>
    \/ value.t = "num" /\ value.n # 0

Digits == <<"0", "1", "2", "3", "4", "5", "6", "7", "8", "9">>

IsDigit(ch) == \E k \in 1..10 : Digits[k] = ch

DigitValue(ch) == (CHOOSE k \in 1..10 : Digits[k] = ch) - 1

RECURSIVE ParseDigits(_, _, _)
ParseDigits(chars, i, acc) ==
    IF i > Len(chars) THEN acc
    ELSE ParseDigits(chars, i + 1, acc * 10 + DigitValue(chars[i]))

\* float(value): a number is itself; a string is stripped and read as
\* decimal digits, and any other text raises ValueError (the strings of
\* the model are made of digits, letters and blanks)
PyFloat(value) ==
    IF value.t = "num" THEN [error |-> "", n |-> value.n]
    ELSE IF value.t = "none" THEN [error |-> "TypeError", n |-> 0]
    ELSE LET text == Strip(value.s)
         IN IF text # <<>> /\ \A k \in 1..Len(text) : IsDigit(text[k])
            THEN [error |-> "", n |-> ParseDigits(text, 1, 0)]
            ELSE [error |-> "ValueError", n |-> 0]

\* float(value or 0)
FloatOrZero(value) == PyFloat(IF Truthy(value) THEN value ELSE NumVal(0))

\* field_mapping.get(role, default)
MappingGet(field_mapping, role, default) ==
    IF role \in DOMAIN field_mapping THEN field_mapping[role] ELSE default

\* dict.get(key, default)
DictGet(dict, key, default) ==
    IF key \in DOMAIN dict THEN dict[key] ELSE default

\* record.get(field, '').strip() if isinstance(record.get(field), str) else ''
CodeOf(record, field) ==
    IF Get(record, field, NoneVal).t = "str"
    THEN Strip(record[field].s) ELSE <<>>

\* a placeholder that leaves the code out
PlaceholderWithoutCode(item_code) == <<"[", "T", "o", "v", "a", "r", "]">>

\* f'[Товар {item_code}]', written in Latin letters
ItemPlaceholder(item_code) ==
    <<"[", "T", "o", "v", "a", "r", " ">> \o item_code \o <<"]">>

\* [error, item]
_decode_item(item_record, doc_type, mappings, item_dicts, unit_dicts) ==
    LET field_mapping == DictGet(mappings, doc_type, <<>>)
        items_catalog == DictGet(item_dicts, doc_type, <<>>)
        units_catalog == DictGet(unit_dicts, doc_type, <<>>)
        item_code == CodeOf(item_record,
                            MappingGet(field_mapping, "item", "SP1031"))
        item_name == IF item_code \in DOMAIN items_catalog
                     THEN items_catalog[item_code].name
                     ELSE ItemPlaceholder(item_code)
        unit_code == CodeOf(item_record,
                            MappingGet(field_mapping, "unit", "SP1032"))
        unit_name == DictGet(units_catalog, unit_code, unit_code)
        quantity == FloatOrZero(Get(item_record,
                        MappingGet(field_mapping, "quantity", "SP1033"),
                        NumVal(0)))
        price == FloatOrZero(Get(item_record,
                        MappingGet(field_mapping, "price", "SP1036"),
                        NumVal(0)))
        amount == FloatOrZero(Get(item_record,
                        MappingGet(field_mapping, "amount", "SP1040"),
                        NumVal(0)))
    IN [error |-> IF quantity.error # "" THEN quantity.error
                  ELSE IF price.error # "" THEN price.error
                  ELSE amount.error,
        item |-> [item_name |-> item_name, unit |-> unit_name,
                  quantity |-> quantity.n, price |-> price.n,
                  amount |-> amount.n]]

\* mutant: the contractor is read from SP1012 for every document type
GetContractorNumberOneField(header, doc_type, contractors) ==
    LET contractor_code == CodeOf(header, "SP1012")
    IN IF contractor_code # <<>> /\ contractor_code \in DOMAIN contractors
       THEN contractors[contractor_code].number
       ELSE <<>>

_get_contractor_number(header, doc_type, contractors) ==
    LET contractor_code == IF doc_type = MRN THEN CodeOf(header, "SP4509")
                           ELSE CodeOf(header, "SP1012")
    IN IF contractor_code # <<>> /\ contractor_code \in DOMAIN contractors
       THEN contractors[contractor_code].number
       ELSE <<>>

TotalFields == <<"SP1040", "SP1039", "SP1037">>

\* [error, n]; value > 0 raises TypeError for a non-empty string
RECURSIVE TotalFrom(_, _)
TotalFrom(header, i) ==
    IF i > Len(TotalFields) THEN [error |-> "", n |-> 0]
    ELSE LET value == Get(header, TotalFields[i], NumVal(0))
         IN IF ~Truthy(value) THEN TotalFrom(header, i + 1)
            ELSE IF value.t = "str" THEN [error |-> "TypeError", n |-> 0]
            ELSE IF value.n > 0 THEN [error |-> "", n |-> value.n]
            ELSE TotalFrom(header, i + 1)

_get_total_amount(header) == TotalFrom(header, 1)

-----------------------------------------------------------------------------
(* InvoiceDBFReader.read_invoices *)

\* the journal loop with the end of the period left out of it
RECURSIVE TargetDocIdsEndExcluded(_, _, _, _, _, _)
TargetDocIdsEndExcluded(records, i, doc_types, start_date, end_date, acc) ==
    IF i > Len(records) THEN acc
    ELSE LET record == records[i]
             doc_type == GetStripped(record, "IDDOCDEF")
             docno == Upper(GetStripped(record, "DOCNO"))
             doc_date == Get(record, "DATE", NoneVal)
             matched == /\ doc_type \in Range(doc_types)
                        /\ ~Contains(docno, ExcludedMarker)
                        /\ doc_date.t = "num"
                        /\ start_date <= doc_date.n
                        /\ doc_date.n < end_date
         IN TargetDocIdsEndExcluded(records, i + 1, doc_types, start_date,
               end_date,
               IF matched
               THEN Append(acc, [iddoc |-> GetStripped(record, "IDDOC"),
                                 docno |-> GetStripped(record, "DOCNO"),
                                 date |-> doc_date.n,
                                 doc_type |-> doc_type])
               ELSE acc)

\* the journal loop, lines 506-534
RECURSIVE TargetDocIdsFrom(_, _, _, _, _, _)
TargetDocIdsFrom(records, i, doc_types, start_date, end_date, acc) ==
    IF i > Len(records) THEN acc
    ELSE LET record == records[i]
             doc_type == GetStripped(record, "IDDOCDEF")
             docno == Upper(GetStripped(record, "DOCNO"))
             doc_date == Get(record, "DATE", NoneVal)
             matched == /\ doc_type \in Range(doc_types)
                        /\ ~Contains(docno, ExcludedMarker)
                        /\ doc_date.t = "num"
                        /\ start_date <= doc_date.n
                        /\ doc_date.n <= end_date
         IN TargetDocIdsFrom(records, i + 1, doc_types, start_date, end_date,
               IF matched
               THEN Append(acc, [iddoc |-> GetStripped(record, "IDDOC"),
                                 docno |-> GetStripped(record, "DOCNO"),
                                 date |-> doc_date.n,
                                 doc_type |-> doc_type])
               ELSE acc)

\* the keys of docs_by_type in insertion order
RECURSIVE TypesInOrderFrom(_, _, _)
TypesInOrderFrom(target_doc_ids, i, acc) ==
    IF i > Len(target_doc_ids) THEN acc
    ELSE TypesInOrderFrom(target_doc_ids, i + 1,
            IF target_doc_ids[i].doc_type \in Range(acc) THEN acc
            ELSE Append(acc, target_doc_ids[i].doc_type))

RECURSIVE HeadersFrom(_, _, _, _)
HeadersFrom(records, i, target_iddocs, header_map) ==
    IF i > Len(records) THEN header_map
    ELSE LET iddoc == GetStripped(records[i], "IDDOC")
         IN HeadersFrom(records, i + 1, target_iddocs,
               IF iddoc \in target_iddocs
               THEN DictPut(header_map, iddoc, records[i]) ELSE header_map)

RECURSIVE LinesFrom(_, _, _, _)
LinesFrom(records, i, header_map, table_map) ==
    IF i > Len(records) THEN table_map
    ELSE LET iddoc == GetStripped(records[i], "IDDOC")
         IN LinesFrom(records, i + 1, header_map,
               IF iddoc \in DOMAIN header_map
               THEN DictPut(table_map, iddoc,
                       Append(DictGet(table_map, iddoc, <<>>), records[i]))
               ELSE table_map)

\* the loop over docs_by_type, lines 553-581: [error, header_map, table_map]
RECURSIVE LoadTypesFrom(_, _, _, _, _, _)
LoadTypesFrom(d, files, types, i, target_doc_ids, maps) ==
    IF i > Len(types) \/ maps.error # "" THEN maps
    ELSE LET doc_type == types[i]
             target_iddocs ==
                 {target_doc_ids[k].iddoc : k \in
                     {j \in 1..Len(target_doc_ids) :
                         target_doc_ids[j].doc_type = doc_type}}
         IN LoadTypesFrom(d, files, types, i + 1, target_doc_ids,
               IF doc_type \notin DOMAIN files THEN maps
               ELSE IF ~CanOpen(d, files[doc_type].header_path)
               THEN [maps EXCEPT !.error = "DBFNotFound"]
               ELSE LET header_map ==
                            HeadersFrom(d.file[files[doc_type].header_path].records,
                                        1, target_iddocs, maps.header_map)
                    IN IF ~CanOpen(d, files[doc_type].table_path)
                       THEN [maps EXCEPT !.error = "DBFNotFound"]
                       ELSE [error |-> "",
                             header_map |-> header_map,
                             table_map |->
                                 LinesFrom(d.file[files[doc_type].table_path].records,
                                           1, header_map, maps.table_map)])

\* [error, items] for the line records of one document
RECURSIVE DecodeItemsFrom(_, _, _, _, _, _, _)
DecodeItemsFrom(items, i, doc_type, mappings, item_dicts, unit_dicts, acc) ==
    IF i > Len(items) \/ acc.error # "" THEN acc
    ELSE LET decoded == _decode_item(items[i], doc_type, mappings,
                                     item_dicts, unit_dicts)
         IN DecodeItemsFrom(items, i + 1, doc_type, mappings, item_dicts,
                            unit_dicts,
                            [error |-> decoded.error,
                             items |-> Append(acc.items, decoded.item)])

\* the loop of lines 589-618 with a missing header raising KeyError
RECURSIVE AssembleHeaderRequired(_, _, _, _, _, _, _, _)
AssembleHeaderRequired(target_doc_ids, i, maps, mappings, item_dicts, unit_dicts, contractors, acc) ==
    IF i > Len(target_doc_ids) \/ acc.error # "" THEN acc
    ELSE LET doc_info == target_doc_ids[i]
             iddoc == doc_info.iddoc
         IN AssembleHeaderRequired(target_doc_ids, i + 1, maps, mappings, item_dicts,
               unit_dicts, contractors,
               IF iddoc \notin DOMAIN maps.header_map
               THEN [acc EXCEPT !.error = "KeyError"]
               ELSE LET header == maps.header_map[iddoc]
                        decoded ==
                            DecodeItemsFrom(DictGet(maps.table_map, iddoc, <<>>),
                                            1, doc_info.doc_type, mappings,
                                            item_dicts, unit_dicts,
                                            [error |-> "", items |-> <<>>])
                        total == _get_total_amount(header)
                    IN IF decoded.error # ""
                       THEN [acc EXCEPT !.error = decoded.error]
                       ELSE IF total.error # ""
                       THEN [acc EXCEPT !.error = total.error]
                       ELSE [acc EXCEPT !.invoices = Append(@,
                               [number |-> doc_info.docno,
                                date |-> doc_info.date,
                                iddoc |-> iddoc,
                                header |-> header,
                                items |-> decoded.items,
                                total_amount |-> total.n,
                                contractor_number |->
                                    _get_contractor_number(header,
                                        doc_info.doc_type, contractors)])])

\* the loop of lines 589-618: [error, invoices]
RECURSIVE AssembleFrom(_, _, _, _, _, _, _, _)
AssembleFrom(target_doc_ids, i, maps, mappings, item_dicts, unit_dicts, contractors, acc) ==
    IF i > Len(target_doc_ids) \/ acc.error # "" THEN acc
    ELSE LET doc_info == target_doc_ids[i]
             iddoc == doc_info.iddoc
         IN AssembleFrom(target_doc_ids, i + 1, maps, mappings, item_dicts,
               unit_dicts, contractors,
               IF iddoc \notin DOMAIN maps.header_map THEN acc
               ELSE LET header == maps.header_map[iddoc]
                        decoded ==
                            DecodeItemsFrom(DictGet(maps.table_map, iddoc, <<>>),
                                            1, doc_info.doc_type, mappings,
                                            item_dicts, unit_dicts,
                                            [error |-> "", items |-> <<>>])
                        total == _get_total_amount(header)
                    IN IF decoded.error # ""
                       THEN [acc EXCEPT !.error = decoded.error]
                       ELSE IF total.error # ""
                       THEN [acc EXCEPT !.error = total.error]
                       ELSE [acc EXCEPT !.invoices = Append(@,
                               [number |-> doc_info.docno,
                                date |-> doc_info.date,
                                iddoc |-> iddoc,
                                header |-> header,
                                items |-> decoded.items,
                                total_amount |-> total.n,
                                contractor_number |->
                                    _get_contractor_number(header,
                                        doc_info.doc_type, contractors)])])

\* [error, invoices]: error names the exception that line 623 catches and
\* logs, and invoices is the list that is returned ([] after an exception)
read_invoices(d, doc_types, files, mappings, item_dicts, unit_dicts, contractors, start_date, end_date) ==
    IF ~CanOpen(d, JournalFile)
    THEN [error |-> "DBFNotFound", invoices |-> <<>>]
    ELSE LET target_doc_ids ==
                 TargetDocIdsFrom(d.file[JournalFile].records, 1, doc_types,
                                  start_date, end_date, <<>>)
             maps == LoadTypesFrom(d, files,
                        TypesInOrderFrom(target_doc_ids, 1, <<>>), 1,
                        target_doc_ids,
                        [error |-> "", header_map |-> <<>>,
                         table_map |-> <<>>])
             result == AssembleFrom(target_doc_ids, 1, maps, mappings,
                          item_dicts, unit_dicts, contractors,
                          [error |-> "", invoices |-> <<>>])
         IN IF target_doc_ids = <<>> THEN [error |-> "", invoices |-> <<>>]
            ELSE IF maps.error # "" THEN [error |-> maps.error, invoices |-> <<>>]
            ELSE IF result.error # ""
            THEN [error |-> result.error, invoices |-> <<>>]
            ELSE result

-----------------------------------------------------------------------------
(* InvoiceExtractor.extract_invoices *)

\* Invoice(number, date, order_number) with its items added: the
\* attributes of the object
ExtractedInvoice(raw_inv) ==
    [number |-> raw_inv.number,
     date |-> raw_inv.date,
     order_number |-> raw_inv.contractor_number,
     items |-> [k \in 1..Len(raw_inv.items) |->
                   [item_name |-> raw_inv.items[k].item_name,
                    unit |-> raw_inv.items[k].unit,
                    quantity |-> raw_inv.items[k].quantity,
                    price |-> raw_inv.items[k].price,
                    amount |-> raw_inv.items[k].amount]]]

\* the loop of lines 126-147
extract_invoices(raw_invoices) ==
    [k \in 1..Len(raw_invoices) |-> ExtractedInvoice(raw_invoices[k])]

-----------------------------------------------------------------------------
(* The databases the reader is opened on *)

MaxJournal == 2
MaxLines == 2
MaxCatalogs == 2
\* two days: a date is before, on or after a bound of the period
Dates == {1, 2}

Table(fields, records) ==
    [fields |-> fields, records |-> records, readable |-> TRUE]

\* a file that dbfread cannot open
Unreadable == [fields |-> <<>>, records |-> <<>>, readable |-> FALSE]

\* files is the directory listing: a list of [name, table]
Database(files) ==
    [exists |-> TRUE,
     dir |-> [k \in 1..Len(files) |-> files[k].name],
     file |-> [name \in {files[k].name : k \in 1..Len(files)} |->
                  files[CHOOSE k \in 1..Len(files) : files[k].name = name].table]]

File(name, table) == [name |-> name, table |-> table]

\* all lists of at most n elements of S, and those with at least one
SeqsUpTo(S, n) == UNION {[1..k -> S] : k \in 0..n}
SeqsFrom1(S, n) == UNION {[1..k -> S] : k \in 1..n}

\* document identifiers, padded as a character field is
DocId(k) == StrVal(<<" ", "D", Digits[k + 1]>>)

Drn == StrVal(<<"d", "r", "n", "-", "1">>)
Srn == StrVal(<<"S", "R", "N", "-", "2">>)
Pko == StrVal(<<"P", "K", "O", "-", "3">>)
Rnk == StrVal(<<"r", "n", "k", " ">>)

\* a journal entry before it gets its IDDOC
Entry(doc_type, docno, date, descr) ==
    [IDDOCDEF |-> StrVal(doc_type), DOCNO |-> docno, DATE |-> date,
     DESCR |-> descr]

JournalFields(has_descr) ==
    <<"IDDOC", "IDDOCDEF", "DOCNO", "DATE">> \o
        (IF has_descr THEN <<"DESCR">> ELSE <<>>)

\* the journal table of a list of entries; entry k is document Dk
Journal(entries, has_descr) ==
    Table(JournalFields(has_descr),
          [k \in 1..Len(entries) |->
              [f \in Range(JournalFields(has_descr)) |->
                  IF f = "IDDOC" THEN DocId(k) ELSE entries[k][f]]])

\* a header record: the contractor of a document and its total
HeaderFields == <<"IDDOC", "SP1012", "SP4509", "SP1040">>

Header(k) ==
    [IDDOC |-> DocId(k), SP1012 |-> StrVal(<<"C", "1", " ">>),
     SP4509 |-> StrVal(<<"C", "1">>), SP1040 |-> NumVal(8)]

Headers(S) ==
    LET In(k) == k \in S
    IN Table(HeaderFields,
             [j \in 1..Len(SelectSeq(<<1, 2, 3>>, In)) |->
                 Header(SelectSeq(<<1, 2, 3>>, In)[j])])

\* a line record of a document type: values is [item, unit, quantity,
\* price, amount]
LineFields(doc_type) ==
    <<"IDDOC">> \o [k \in 1..Len(Roles) |-> ProfileOf(doc_type)[Roles[k]]]

Line(doc_type, k, values) ==
    [f \in Range(LineFields(doc_type)) |->
        IF f = "IDDOC" THEN DocId(k)
        ELSE values[CHOOSE r \in DOMAIN values : ProfileOf(doc_type)[r] = f]]

Lines(doc_type, records) == Table(LineFields(doc_type), records)

ItemI1 == StrVal(<<" ", "I", "1">>)
ItemI9 == StrVal(<<"I", "9">>)
UnitU1 == StrVal(<<"U", "1", " ">>)
UnitU9 == StrVal(<<"U", "9">>)

GoodValues ==
    [item |-> ItemI1, unit |-> UnitU1, quantity |-> NumVal(2),
     price |-> NumVal(4), amount |-> NumVal(8)]

GoodLine(doc_type, k) == Line(doc_type, k, GoodValues)

\* lookup tables
CatalogFields == <<"ID", "CODE", "DESCR", "SP149">>

CatalogRecord(id, code, descr, full) ==
    [ID |-> StrVal(id), CODE |-> StrVal(code), DESCR |-> StrVal(descr),
     SP149 |-> StrVal(full)]

RecordI1 ==
    CatalogRecord(<<"I", "1", " ">>, <<"0", "1">>, <<"n", "u", "t">>,
                  <<"N", "u", "t", " ">>)
RecordU1 == CatalogRecord(<<"U", "1">>, <<"0", "2">>, <<"k", "g">>, <<>>)
RecordC1 == CatalogRecord(<<"C", "1">>, <<"0", "3">>, <<"2", "6", "5">>, <<>>)

CatalogContents ==
    {Unreadable,
     Table(CatalogFields, <<>>),
     Table(CatalogFields, <<RecordI1>>),
     Table(CatalogFields, <<RecordU1>>),
     Table(CatalogFields, <<RecordU1, RecordI1>>)}

\* the numbers of the lookup files, in the order of the listing
CatalogNumbers == <<84, 33, 90, 95>>

\* a listing of n lookup files with the given contents
CatalogFiles(contents) ==
    [k \in 1..Len(contents) |->
        File(FileName("SC", CatalogNumbers[k]), contents[k])]

\* the two catalogs and the contractors of a complete database
UsualCatalogs ==
    <<File(FileName("SC", 84), Table(CatalogFields, <<RecordI1>>)),
      File(FileName("SC", 33), Table(CatalogFields, <<RecordU1>>)),
      File(ContractorFile, Table(CatalogFields, <<RecordC1>>))>>

\* the header and line files of a document type
TypeFiles(doc_type, headers, lines) ==
    <<File(FilesOfType(doc_type).header_path, headers),
      File(FilesOfType(doc_type).table_path, lines)>>

\* 1. Journals: the entries of the journal and its DESCR field vary,
\*    the files of both types are there.
JournalEntries ==
    {Entry(t, n[1], NumVal(1), n[2]) :
        t \in DocTypes,
        n \in {<<Drn, StrVal(<<>>)>>, <<Srn, StrVal(<<>>)>>, <<Pko, Rnk>>}}

JournalDatabases ==
    {NoDatabase, Database(UsualCatalogs),
     Database(<<File(JournalFile, Unreadable)>> \o UsualCatalogs)} \cup
    {Database(<<File(JournalFile, Journal(entries, has_descr))>>
              \o TypeFiles(DefaultDocType, Headers({1, 2}),
                     Lines(DefaultDocType, <<GoodLine(DefaultDocType, 1)>>))
              \o TypeFiles(MRN, Headers({1, 2}),
                           Lines(MRN, <<GoodLine(MRN, 2)>>))
              \o UsualCatalogs) :
        entries \in SeqsUpTo(JournalEntries, MaxJournal),
        has_descr \in BOOLEAN}

\* one invoice of each type
TwoTypesJournal ==
    Journal(<<Entry(DefaultDocType, Drn, NumVal(1), StrVal(<<>>)),
              Entry(MRN, Drn, NumVal(2), StrVal(<<>>))>>, FALSE)

\* 2. Files: one invoice of each type; the files of a type are there or
\*    not (the header file of 3H8 always is), its line table can be read
\*    or not, and has a record or none.
LineTables(doc_type, k) ==
    {Unreadable, Lines(doc_type, <<>>), Lines(doc_type, <<GoodLine(doc_type, k)>>)}

FileDatabases ==
    {Database(<<File(JournalFile, TwoTypesJournal)>>
              \o (IF has[1] THEN TypeFiles(DefaultDocType, Headers({1, 2}),
                                           lines[1])
                  ELSE <<>>)
              \o (IF has[2] THEN TypeFiles(MRN, Headers({1, 2}), lines[2])
                  ELSE <<File(FilesOfType(MRN).header_path,
                              Headers({1, 2}))>>)
              \o UsualCatalogs) :
        has \in [1..2 -> BOOLEAN],
        lines \in {<<l1, l2>> : l1 \in LineTables(DefaultDocType, 1),
                                l2 \in LineTables(MRN, 2)}}

\* 3. Catalogs: one invoice of each type; the codes of the first line of
\*    the default type and the lookup files vary.
CatalogDatabases ==
    {Database(<<File(JournalFile, TwoTypesJournal)>>
              \o TypeFiles(DefaultDocType, Headers({1, 2}),
                     Lines(DefaultDocType,
                           <<Line(DefaultDocType, 1,
                                  [GoodValues EXCEPT !.item = item,
                                                     !.unit = unit])>>))
              \o TypeFiles(MRN, Headers({1, 2}),
                           Lines(MRN, <<GoodLine(MRN, 2)>>))
              \o CatalogFiles(contents)) :
        item \in {ItemI1, ItemI9, NumVal(2)},
        unit \in {UnitU1, UnitU9},
        contents \in SeqsUpTo(CatalogContents, MaxCatalogs)}

\* 4. Matching: the types, numbers and dates of the journal entries vary,
\*    and the header of document 1 is there or not.
MatchingEntries ==
    {Entry(t, n[1], n[2], StrVal(<<>>)) :
        t \in DocTypes,
        n \in {<<Drn, NumVal(k)>> : k \in Dates}
              \cup {<<Srn, NumVal(1)>>, <<Drn, NoneVal>>}}

MatchingDatabases ==
    {Database(<<File(JournalFile, Journal(entries, FALSE))>>
              \o TypeFiles(DefaultDocType, Headers(present),
                     Lines(DefaultDocType, <<GoodLine(DefaultDocType, 1),
                                             GoodLine(DefaultDocType, 2)>>))
              \o TypeFiles(MRN, Headers(present),
                     Lines(MRN, <<GoodLine(MRN, 1), GoodLine(MRN, 2)>>))
              \o UsualCatalogs) :
        entries \in SeqsUpTo(MatchingEntries, MaxJournal),
        present \in {{1, 2, 3}, {2, 3}}}

\* 5. Lines: two invoices of the default type on day 1; the line records
\*    of their table vary.
LineValues ==
    {[GoodValues EXCEPT !.quantity = v] :
        v \in {NumVal(2), NoneVal, StrVal(<<" ", "3", " ">>),
               StrVal(<<"a", "b">>)}} \cup
    {[GoodValues EXCEPT !.price = StrVal(<<"a", "b">>)],
     [GoodValues EXCEPT !.amount = StrVal(<<" ">>), !.item = ItemI9,
                        !.unit = UnitU9]}

LineRecords ==
    {Line(DefaultDocType, k, values) : k \in 1..2, values \in LineValues}

LineJournal ==
    Journal(<<Entry(DefaultDocType, Drn, NumVal(1), StrVal(<<>>)),
              Entry(DefaultDocType, Drn, NumVal(1), StrVal(<<>>))>>, FALSE)

LineDatabases ==
    {Database(<<File(JournalFile, LineJournal)>>
              \o TypeFiles(DefaultDocType, Headers({1, 2}),
                           Lines(DefaultDocType, records))
              \o UsualCatalogs) :
        records \in SeqsFrom1(LineRecords, MaxLines)}

Databases ==
    JournalDatabases \cup FileDatabases \cup CatalogDatabases
        \cup MatchingDatabases \cup LineDatabases

InitReader ==
    /\ db \in Databases
    /\ rpc = "new"
    /\ raised = ""
    /\ invoice_doc_types = <<>>
    /\ invoice_files = <<>>
    /\ field_mappings = <<>>
    /\ catalog_paths = <<>>
    /\ items_catalogs = <<>>
    /\ units_catalogs = <<>>
    /\ contractors_catalog = <<>>
    /\ read_args = [start_date |-> NoDate, end_date |-> NoDate]
    /\ read_result = <<>>
    /\ read_logged = ""
    /\ extract_result = <<>>
    /\ IdleLayout
    /\ IdleQuant
    /\ IdleInfer
    /\ IdleGroup
    /\ IdleHeight

-----------------------------------------------------------------------------
(* The reader: InvoiceDBFReader.__init__ in three steps, then read_invoices *)

Fail(exception) ==
    /\ rpc' = "failed"
    /\ raised' = exception
    /\ UNCHANGED <<db, invoice_doc_types, invoice_files, field_mappings,
                   catalog_paths, items_catalogs, units_catalogs,
                   contractors_catalog, read_args, read_result, read_logged, extract_result>>

\* lines 26-40 with _detect_invoice_files, and lines 379-380
Open ==
    /\ rpc = "new"
    /\ IF ~db.exists \/ ~PathExists(db, JournalFile)
       THEN Fail("ValueError")
       ELSE LET detected == _detect_invoice_files(db)
            IN IF detected.error # ""
               THEN Fail("ValueError")
               ELSE /\ rpc' = "detect"
                    /\ invoice_doc_types' = detected.invoice_doc_types
                    /\ invoice_files' =
                          [t \in Range(detected.invoice_files) |->
                              FilesOfType(t)]
                    /\ field_mappings' = <<>>
                    /\ catalog_paths' = <<>>
                    /\ UNCHANGED <<db, raised, items_catalogs,
                                   units_catalogs, contractors_catalog,
                                   read_args, read_result, read_logged, extract_result>>
    /\ UNCHANGED notReaderVars

\* the document types of invoice_files that the loop of line 382 has not
\* reached yet; the dict was filled in sorted order
PendingTypes ==
    LET Pending(t) == t \in DOMAIN invoice_files /\ t \notin DOMAIN catalog_paths
    IN SelectSeq(DocTypesSorted, Pending)

\* one pass of the loop of lines 382-402; any exception leaves
\* _detect_catalog_files as ValueError (line 409)
DetectCatalogsForType ==
    /\ rpc = "detect"
    /\ PendingTypes # <<>>
    /\ LET doc_type == PendingTypes[1]
           table_path == invoice_files[doc_type].table_path
       IN IF ~CanOpen(db, table_path)
          THEN Fail("ValueError")
          ELSE LET table == db.file[table_path]
                   detected == _detect_field_structure(table, doc_type)
               IN IF detected.error # ""
                  THEN Fail("ValueError")
                  ELSE LET found == _find_catalogs_for_type(db, table,
                                                            detected.mapping)
                       IN IF found.error # ""
                          THEN Fail("ValueError")
                          \* os.path.basename(None) raises TypeError
                          ELSE IF \/ found.catalogs.items = NoPath
                                  \/ found.catalogs.units = NoPath
                          THEN Fail("ValueError")
                          ELSE /\ field_mappings' =
                                     DictPut(field_mappings, doc_type,
                                             detected.mapping)
                               /\ catalog_paths' =
                                     DictPut(catalog_paths, doc_type,
                                             found.catalogs)
                               /\ UNCHANGED <<db, rpc, raised,
                                     invoice_doc_types, invoice_files,
                                     items_catalogs, units_catalogs,
                                     contractors_catalog, read_args,
                                     read_result, read_logged, extract_result>>
    /\ UNCHANGED notReaderVars

\* _load_all_catalogs, called at line 405 when the loop is over
LoadAllCatalogs ==
    /\ rpc = "detect"
    /\ PendingTypes = <<>>
    /\ contractors_catalog' = _load_contractor_catalog(db)
    /\ items_catalogs' = [t \in DOMAIN catalog_paths |->
                             LoadItems(db, catalog_paths[t].items)]
    /\ units_catalogs' = [t \in DOMAIN catalog_paths |->
                             LoadUnits(db, catalog_paths[t].units)]
    /\ rpc' = "ready"
    /\ UNCHANGED <<db, raised, invoice_doc_types, invoice_files,
                   field_mappings, catalog_paths, read_args, read_result,
                   read_logged, extract_result>>
    /\ UNCHANGED notReaderVars

\* extract_invoices with the catalogs dropped by a call that fails
ReadInvoicesDropping ==
    /\ rpc \in {"ready", "read"}
    /\ \E start_date \in Dates, end_date \in Dates \cup {NoDate} :
          LET result == read_invoices(db, invoice_doc_types, invoice_files,
                            field_mappings, items_catalogs, units_catalogs,
                            contractors_catalog, start_date,
                            IF end_date = NoDate THEN start_date
                            ELSE end_date)
          IN /\ read_args' = [start_date |-> start_date,
                              end_date |-> end_date]
             /\ read_result' = result.invoices
             /\ read_logged' = result.error
             /\ extract_result' = extract_invoices(result.invoices)
    /\ rpc' = "read"
    /\ raised' = ""
    /\ items_catalogs' = IF read_logged' # "" THEN <<>> ELSE items_catalogs
    /\ units_catalogs' = IF read_logged' # "" THEN <<>> ELSE units_catalogs
    /\ UNCHANGED <<db, invoice_doc_types, invoice_files,
                   field_mappings, catalog_paths, contractors_catalog>>
    /\ UNCHANGED notReaderVars


\* extract_invoices(start_date, end_date): the call of read_invoices at
\* line 123 and the conversion of what it returns; end_date None is
\* start_date.  Both catch every exception, so the call returns.
ReadInvoices ==
    /\ rpc \in {"ready", "read"}
    /\ \E start_date \in Dates, end_date \in Dates \cup {NoDate} :
          LET result == read_invoices(db, invoice_doc_types, invoice_files,
                            field_mappings, items_catalogs, units_catalogs,
                            contractors_catalog, start_date,
                            IF end_date = NoDate THEN start_date
                            ELSE end_date)
          IN /\ read_args' = [start_date |-> start_date,
                              end_date |-> end_date]
             /\ read_result' = result.invoices
             /\ read_logged' = result.error
             /\ extract_result' = extract_invoices(result.invoices)
    /\ rpc' = "read"
    /\ raised' = ""
    /\ UNCHANGED <<db, invoice_doc_types, invoice_files,
                   field_mappings, catalog_paths, items_catalogs,
                   units_catalogs, contractors_catalog>>
    /\ UNCHANGED notReaderVars

NextReader ==
    \/ Open
    \/ DetectCatalogsForType
    \/ LoadAllCatalogs
    \/ ReadInvoices

SpecReader == InitReader /\ [][NextReader]_vars

\* the reader on the databases whose journal entries vary in type, number
\* and date
InitMatching ==
    /\ InitReader
    /\ db \in MatchingDatabases

SpecMatching == InitMatching /\ [][NextReader]_vars

-----------------------------------------------------------------------------
(* The reader on a database that loses a file after it was opened *)

\* the files read_invoices opens: the journal, and the header and line
\* files of the document types
RequiredFiles ==
    {JournalFile} \cup
    UNION {{invoice_files[t].header_path, invoice_files[t].table_path} :
              t \in DOMAIN invoice_files}

\* one of these files becomes unavailable; no call has returned since
RemoveFile ==
    /\ rpc \in {"ready", "read"}
    /\ RequiredFiles \subseteq Range(db.dir)
    /\ \E name \in RequiredFiles :
          LET Other(n) == n # name
          IN db' = [db EXCEPT !.dir = SelectSeq(@, Other),
                              !.file = [n \in DOMAIN @ \ {name} |-> @[n]]]
    /\ rpc' = "ready"
    /\ UNCHANGED <<raised, invoice_doc_types, invoice_files, field_mappings,
                   catalog_paths, items_catalogs, units_catalogs,
                   contractors_catalog, read_args, read_result, read_logged,
                   extract_result>>
    /\ UNCHANGED notReaderVars

StorageDatabases == JournalDatabases \cup FileDatabases

InitStorage ==
    /\ db \in StorageDatabases
    /\ rpc = "new"
    /\ raised = ""
    /\ invoice_doc_types = <<>>
    /\ invoice_files = <<>>
    /\ field_mappings = <<>>
    /\ catalog_paths = <<>>
    /\ items_catalogs = <<>>
    /\ units_catalogs = <<>>
    /\ contractors_catalog = <<>>
    /\ read_args = [start_date |-> NoDate, end_date |-> NoDate]
    /\ read_result = <<>>
    /\ read_logged = ""
    /\ extract_result = <<>>
    /\ IdleLayout
    /\ IdleQuant
    /\ IdleInfer
    /\ IdleGroup
    /\ IdleHeight

NextStorage ==
    \/ Open
    \/ DetectCatalogsForType
    \/ LoadAllCatalogs
    \/ ReadInvoices
    \/ RemoveFile

SpecStorage == InitStorage /\ [][NextStorage]_vars

-----------------------------------------------------------------------------
(* Properties of the reader *)

\* construction is over: the object exists or __init__ has raised
Constructed == rpc \in {"ready", "read"}
Finished == Constructed \/ rpc = "failed"

\* the document types whose files _detect_invoice_files finds in db
DetectedTypes ==
    IF db.exists /\ PathExists(db, JournalFile)
    THEN Range(_detect_invoice_files(db).invoice_files) ELSE {}

LineTable(doc_type) == db.file[FilesOfType(doc_type).table_path]
HeaderTable(doc_type) == db.file[FilesOfType(doc_type).header_path]

\* the journal entries the last read_invoices call matched
MatchedDocs ==
    TargetDocIdsFrom(db.file[JournalFile].records, 1, invoice_doc_types,
                     read_args.start_date,
                     IF read_args.end_date = NoDate THEN read_args.start_date
                     ELSE read_args.end_date, <<>>)

HasHeader(doc) ==
    /\ doc.doc_type \in DOMAIN invoice_files
    /\ \E k \in 1..Len(HeaderTable(doc.doc_type).records) :
          GetStripped(HeaderTable(doc.doc_type).records[k], "IDDOC") = doc.iddoc

\* a string that float() does not read
NonNumeric(value) == value.t = "str" /\ PyFloat(value).error # ""

NumericRoles == {"quantity", "price", "amount"}

\* the line records of a matched document, in its own line table
OwnLines(doc) ==
    LET Own(r) == GetStripped(r, "IDDOC") = doc.iddoc
    IN SelectSeq(LineTable(doc.doc_type).records, Own)

HasBadNumber(doc) ==
    /\ doc.doc_type \in DOMAIN field_mappings
    /\ \E k \in 1..Len(OwnLines(doc)), r \in NumericRoles :
          NonNumeric(Get(OwnLines(doc)[k],
                         field_mappings[doc.doc_type][r], NumVal(0)))

\* the invoices of the result that carry the identifier of doc
ReturnedFor(doc) ==
    {j \in 1..Len(read_result) : read_result[j].iddoc = doc.iddoc}

(* C6: when a line record of a matched document holds a string that is not
   a number in its quantity, price or amount field, read_invoices logs no
   exception and returns every matched document that has a header, this
   document among them, the value read from such a string being 0. *)
C6_BadNumberKeepsBatch ==
    (/\ rpc = "read"
     /\ \E k \in 1..Len(MatchedDocs) :
           HasHeader(MatchedDocs[k]) /\ HasBadNumber(MatchedDocs[k])) =>
        /\ read_logged = ""
        /\ \A k \in 1..Len(MatchedDocs) :
              HasHeader(MatchedDocs[k]) =>
                 \E j \in ReturnedFor(MatchedDocs[k]) :
                    /\ Len(read_result[j].items) = Len(OwnLines(MatchedDocs[k]))
                    /\ \A i \in 1..Len(read_result[j].items) :
                          NonNumeric(OwnLines(MatchedDocs[k])[i][
                              field_mappings[MatchedDocs[k].doc_type].quantity])
                          => read_result[j].items[i].quantity = 0

(* C7: when the line table of one detected document type has no record and
   another detected type has a line table with records, the reader is
   constructed and the other type has its field mapping and its catalogs. *)
C7_EmptyKindOnly ==
    (/\ Finished
     /\ ScFiles(db) # <<>>
     /\ \A t \in DetectedTypes : LineTable(t).readable
     /\ \E t \in DetectedTypes : LineTable(t).records = <<>>
     /\ \E t \in DetectedTypes : LineTable(t).records # <<>>) =>
        /\ Constructed
        /\ \A t \in DetectedTypes :
              LineTable(t).records # <<>> =>
                 /\ t \in DOMAIN field_mappings
                 /\ t \in DOMAIN catalog_paths
                 /\ t \in DOMAIN items_catalogs
                 /\ t \in DOMAIN units_catalogs

(* C9: when the directory has no SC*.DBF file, and every detected document
   type has a line table with records, the reader is constructed and the
   items catalog and the units catalog of every type are empty. *)
C9_NoLookupFiles ==
    (/\ Finished
     /\ ScFiles(db) = <<>>
     /\ DetectedTypes # {}
     /\ \A t \in DetectedTypes :
           LineTable(t).readable /\ LineTable(t).records # <<>>) =>
        /\ Constructed
        /\ \A t \in DetectedTypes :
              /\ items_catalogs[t] = <<>>
              /\ units_catalogs[t] = <<>>

\* no lookup file that can be read has a record whose ID is the code
NoFileHas(code) ==
    \A k \in 1..Len(ScFiles(db)) :
        db.file[ScFiles(db)[k]].readable =>
            \A j \in 1..Len(db.file[ScFiles(db)[k]].records) :
                GetStripped(db.file[ScFiles(db)[k]].records[j], "ID") # code

\* the code sampled for a role from the first line record of a type
SampleOf(doc_type, role) ==
    CodeSample(LineTable(doc_type).records[1], field_mappings[doc_type][role])

(* C10 as stated: for a document type whose catalogs are resolved, a role
   (items, units) whose sampled code is the ID of no record of any lookup
   file resolves to the first lookup file of the listing. *)
C10_EachRoleFirstFile ==
    \A t \in DOMAIN catalog_paths :
        /\ NoFileHas(SampleOf(t, "item")) =>
              catalog_paths[t].items = ScFiles(db)[1]
        /\ NoFileHas(SampleOf(t, "unit")) =>
              catalog_paths[t].units = ScFiles(db)[1]

(* C10 amended: for a document type whose catalogs are resolved (there is
   a lookup file), the items role whose sampled code is the ID of no record
   of any lookup file resolves to the first lookup file of the listing, and
   the units role whose sampled code is the ID of no record resolves to the
   catalog the items role resolved to. *)
C10_UnitsFollowItems ==
    \A t \in DOMAIN catalog_paths :
        /\ ScFiles(db) # <<>>
        /\ NoFileHas(SampleOf(t, "item")) =>
              catalog_paths[t].items = ScFiles(db)[1]
        /\ NoFileHas(SampleOf(t, "unit")) =>
              catalog_paths[t].units = catalog_paths[t].items

\* the item code is found in the second lookup file only, the unit code
\* in none: both roles resolve to the second file
C10_Witness ==
    /\ DefaultDocType \in DOMAIN catalog_paths
    /\ Len(ScFiles(db)) = 2
    /\ ~NoFileHas(SampleOf(DefaultDocType, "item"))
    /\ NoFileHas(SampleOf(DefaultDocType, "unit"))
    /\ catalog_paths[DefaultDocType].items = ScFiles(db)[2]
    /\ catalog_paths[DefaultDocType].units = ScFiles(db)[2]

\* a file the last call had to open was not there: the journal, or the
\* header or line file of a document type with a matched entry
StorageFailure ==
    \/ ~CanOpen(db, JournalFile)
    \/ \E k \in 1..Len(MatchedDocs) :
          /\ MatchedDocs[k].doc_type \in DOMAIN invoice_files
          /\ \/ ~CanOpen(db, invoice_files[MatchedDocs[k].doc_type].header_path)
             \/ ~CanOpen(db, invoice_files[MatchedDocs[k].doc_type].table_path)

(* C11: a missing database directory or journal makes the opening of the
   reader raise to its caller, and a call of extract that finds the journal,
   or the header or line file of a matched document type, unavailable
   raises to its caller too instead of returning a list. *)
C11_StorageErrorSurfaced ==
    /\ (rpc \in {"detect", "failed"}
            /\ (~db.exists \/ ~PathExists(db, JournalFile))) =>
          (rpc = "failed" /\ raised # "")
    /\ (rpc = "read" /\ StorageFailure) => raised # ""


-----------------------------------------------------------------------------
(* The journal entries read_invoices matches *)

JournalRecords == db.file[JournalFile].records

\* the period of the last call: end_date None stands for start_date
PeriodEnd ==
    IF read_args.end_date = NoDate THEN read_args.start_date
    ELSE read_args.end_date

\* entry i of the journal is among the matched entries
IsMatched(i) ==
    \E k \in 1..Len(MatchedDocs) :
       MatchedDocs[k].iddoc = GetStripped(JournalRecords[i], "IDDOC")

KindAccepted(i) ==
    GetStripped(JournalRecords[i], "IDDOCDEF") \in Range(invoice_doc_types)

NumberDisqualified(i) ==
    Contains(Upper(GetStripped(JournalRecords[i], "DOCNO")), ExcludedMarker)

DateInPeriod(i) ==
    /\ JournalRecords[i].DATE.t = "num"
    /\ read_args.start_date <= JournalRecords[i].DATE.n
    /\ JournalRecords[i].DATE.n <= PeriodEnd

(* C12: after a call of read_invoices that could open the journal, an entry
   of the journal is among the matched entries exactly when its document
   type is one of the detected invoice types, its number does not contain
   the excluded marker, and its date lies between the start and the end of
   the period, both ends included. *)
C12_MatchedIff ==
    (rpc = "read" /\ CanOpen(db, JournalFile)) =>
        \A i \in 1..Len(JournalRecords) :
           IsMatched(i) <=>
              (KindAccepted(i) /\ ~NumberDisqualified(i) /\ DateInPeriod(i))

\* a period of two days: an entry dated on its last day is matched, and an
\* entry of an accepted type is left out for its number or its date
C12_Witness ==
    /\ rpc = "read"
    /\ CanOpen(db, JournalFile)
    /\ read_args.start_date < PeriodEnd
    /\ \E i, j \in 1..Len(JournalRecords) :
          /\ IsMatched(i)
          /\ JournalRecords[i].DATE.n = PeriodEnd
          /\ KindAccepted(j)
          /\ ~IsMatched(j)


-----------------------------------------------------------------------------
(* The invoices read_invoices returns *)

\* the matched entries whose header record is in the header file of
\* their type, in journal order
MatchedWithHeader == SelectSeq(MatchedDocs, HasHeader)

\* the call reads well-formed tables: no file of a matched type is
\* unavailable and no line record holds a string that is not a number
TablesWellFormed ==
    /\ ~StorageFailure
    /\ \A k \in 1..Len(MatchedDocs) :
          HasHeader(MatchedDocs[k]) => ~HasBadNumber(MatchedDocs[k])

(* C13: a call of read_invoices on well-formed tables logs no exception and
   returns one invoice for each matched entry that has a header record, in
   the order of the journal, with the number and the date of the entry; a
   matched entry without a header record is left out and the others are
   returned all the same. *)
C13_OnePerEntryWithHeader ==
    (rpc = "read" /\ TablesWellFormed) =>
        /\ read_logged = ""
        /\ Len(read_result) = Len(MatchedWithHeader)
        /\ \A k \in 1..Len(read_result) :
              /\ read_result[k].iddoc = MatchedWithHeader[k].iddoc
              /\ read_result[k].number = MatchedWithHeader[k].docno
              /\ read_result[k].date = MatchedWithHeader[k].date

\* two matched entries, the first without a header record: the second is
\* returned alone
C13_Witness ==
    /\ rpc = "read"
    /\ TablesWellFormed
    /\ Len(MatchedDocs) = 2
    /\ ~HasHeader(MatchedDocs[1])
    /\ HasHeader(MatchedDocs[2])
    /\ Len(read_result) = 1
    /\ read_result[1].iddoc = MatchedDocs[2].iddoc


-----------------------------------------------------------------------------
(* The document type on the invoices extract_invoices returns *)

(* C14: every invoice extract_invoices returns has a doc_type attribute,
   the one the renderer reads, and it holds the document type of the
   journal entry the invoice was made from. *)
C14_DocTypeCarried ==
    (rpc = "read" /\ TablesWellFormed) =>
        /\ Len(extract_result) = Len(MatchedWithHeader)
        /\ \A k \in 1..Len(extract_result) :
              /\ "doc_type" \in DOMAIN extract_result[k]
              /\ extract_result[k].doc_type = MatchedWithHeader[k].doc_type


-----------------------------------------------------------------------------
(* The field mappings and catalogs of a constructed reader *)

caches == <<field_mappings, catalog_paths, items_catalogs, units_catalogs, contractors_catalog>>

\* the numbers of every returned item are read from the fields that
\* field_mappings names for the document type of its invoice
ItemsReadThroughMapping ==
    (rpc = "read" /\ read_logged = "" /\ CanOpen(db, JournalFile)) =>
        \A k \in 1..Len(read_result) :
           LET doc == MatchedWithHeader[k]
               lines == OwnLines(doc)
           IN Len(read_result[k].items) = Len(lines) =>
                 \A j \in 1..Len(lines), r \in NumericRoles :
                    read_result[k].items[j][r] =
                       FloatOrZero(Get(lines[j],
                                       field_mappings[doc.doc_type][r],
                                       NumVal(0))).n

(* C15: once the reader is constructed, no step changes field_mappings,
   catalog_paths, items_catalogs, units_catalogs or contractors_catalog,
   whether the call of extract_invoices returns invoices or fails; and the
   call reads every line record of a document type through the field
   mapping kept for that type. *)
C15_CachesFrozen ==
    /\ [][Constructed => UNCHANGED caches]_vars
    /\ []ItemsReadThroughMapping

\* a call that failed on a removed file, with the mappings and catalogs
\* of the construction still there
C15_Witness ==
    /\ rpc = "read"
    /\ read_logged # ""
    /\ field_mappings # <<>>
    /\ items_catalogs # <<>>
    /\ \E t \in DOMAIN items_catalogs : items_catalogs[t] # <<>>
    /\ contractors_catalog # <<>>


-----------------------------------------------------------------------------
(* _group_invoices_by_order on its own *)

\* longest list of invoices handed to the grouping
MaxGroupDocs == 3

\* order numbers of these invoices: none, two ordinary ones, and the text
\* the function uses as the key of the invoices without order number
GroupOrderNumbers == {"", "A", "B", "__EMPTY__"}

InitGroup ==
    /\ IdleLayout
    /\ IdleQuant
    /\ IdleInfer
    /\ IdleReader
    /\ IdleHeight
    /\ gpc = "call"
    /\ \E n \in 0..MaxGroupDocs :
          ginvoices \in [1..n -> [order_number : GroupOrderNumbers, items : {1}]]
    /\ gresult = <<>>

GroupInvoices ==
    /\ gpc = "call"
    /\ gresult' = _group_invoices_by_order(ginvoices)
    /\ gpc' = "return"
    /\ UNCHANGED ginvoices
    /\ UNCHANGED notGroupVars

NextGroup == GroupInvoices

SpecGroup == InitGroup /\ [][NextGroup]_vars

\* the groups of the result that hold invoice i
GroupsOf(i) ==
    {g \in 1..Len(gresult) : \E k \in 1..Len(gresult[g]) : gresult[g][k] = i}

(* C17: the groups returned by _group_invoices_by_order hold every invoice
   of the list once; two invoices are in the same group exactly when their
   order numbers are equal, so that the invoices without order number are a
   group of their own; the groups come in the order in which their order
   number first appears in the list, and the invoices of a group are in the
   order of the list. *)
C17_PartitionByKey ==
    gpc = "return" =>
        /\ \A i \in 1..Len(ginvoices) : Cardinality(GroupsOf(i)) = 1
        /\ \A g \in 1..Len(gresult) :
              /\ gresult[g] # <<>>
              /\ \A k \in 1..Len(gresult[g]) : gresult[g][k] \in 1..Len(ginvoices)
              /\ \A k \in 1..(Len(gresult[g]) - 1) : gresult[g][k] < gresult[g][k + 1]
        /\ \A g \in 1..(Len(gresult) - 1) : gresult[g][1] < gresult[g + 1][1]
        /\ \A i, j \in 1..Len(ginvoices) :
              (GroupsOf(i) = GroupsOf(j)) <=>
                 (ginvoices[i].order_number = ginvoices[j].order_number)


-----------------------------------------------------------------------------
(* Codes that the catalogs do not hold *)

\* the field of a role in the mapping kept for the type of doc
MappedField(doc, role, default) ==
    MappingGet(DictGet(field_mappings, doc.doc_type, <<>>), role, default)

\* the returned invoices whose items are the line records of their own
\* line table, one item per record
OwnItemsOnly(k) ==
    Len(read_result[k].items) = Len(OwnLines(MatchedWithHeader[k]))

(* C18: in the invoices read_invoices returns, an item whose item code is
   not a key of the items catalog of its document type is named by a
   placeholder that contains the code, and an item whose unit code is not a
   key of the units catalog of the type has the unit code itself as its
   unit. *)
C18_PlaceholderAndRawUnit ==
    (rpc = "read" /\ read_logged = "" /\ CanOpen(db, JournalFile)) =>
        \A k \in 1..Len(read_result) :
           OwnItemsOnly(k) =>
              LET doc == MatchedWithHeader[k]
                  lines == OwnLines(doc)
              IN \A j \in 1..Len(lines) :
                    LET item_code == CodeOf(lines[j], MappedField(doc, "item", "SP1031"))
                        unit_code == CodeOf(lines[j], MappedField(doc, "unit", "SP1032"))
                        item == read_result[k].items[j]
                    IN /\ item_code \notin DOMAIN DictGet(items_catalogs, doc.doc_type, <<>>) =>
                             /\ Contains(item.item_name, item_code)
                             /\ Len(item.item_name) > Len(item_code)
                             /\ item.item_name[1] = "["
                       /\ unit_code \notin DOMAIN DictGet(units_catalogs, doc.doc_type, <<>>) =>
                             item.unit = unit_code

\* a returned item with item code I9 and unit code U9, where the catalogs
\* of the type are loaded and hold neither
C18_Witness ==
    /\ rpc = "read"
    /\ read_logged = ""
    /\ \E k \in 1..Len(read_result) :
          /\ OwnItemsOnly(k)
          /\ DictGet(items_catalogs, MatchedWithHeader[k].doc_type, <<>>) # <<>>
          /\ DictGet(units_catalogs, MatchedWithHeader[k].doc_type, <<>>) # <<>>
          /\ \E j \in 1..Len(read_result[k].items) :
                /\ read_result[k].items[j].item_name = ItemPlaceholder(ItemI9.s)
                /\ read_result[k].items[j].unit = UnitU9.s


-----------------------------------------------------------------------------
(* _calculate_invoice_height on its own, for two invoices at a time *)

\* largest number of items of these invoices
MaxItems == 12

InitHeight ==
    /\ IdleLayout
    /\ IdleQuant
    /\ IdleInfer
    /\ IdleReader
    /\ IdleGroup
    /\ hpc = "call"
    /\ hinvoices \in [1..2 -> [order_number : {""}, items : 0..MaxItems]]
    /\ heights = <<>>

CalculateHeights ==
    /\ hpc = "call"
    /\ heights' = [k \in 1..2 |-> _calculate_invoice_height(hinvoices[k])]
    /\ hpc' = "return"
    /\ UNCHANGED hinvoices
    /\ UNCHANGED notHeightVars

NextHeight == CalculateHeights

SpecHeight == InitHeight /\ [][NextHeight]_vars

(* C19: of two invoices, the one with no more items than the other gets a
   height that is no larger from _calculate_invoice_height. *)
C19_HeightMonotone ==
    (hpc = "return" /\ hinvoices[1].items <= hinvoices[2].items) =>
        heights[1] <= heights[2]

\* an invoice without items and one with MaxItems items
C19_Witness ==
    /\ hpc = "return"
    /\ hinvoices[1].items = 0
    /\ hinvoices[2].items = MaxItems
    /\ heights[1] < heights[2]


-----------------------------------------------------------------------------
(* The contractor number of an invoice *)

\* a header field the table does not have
Absent == [t |-> "absent", s |-> <<>>, n |-> 0]

\* what the contractor fields of a header record hold
ContractorHeaderValues ==
    {StrVal(<<"C", "1", " ">>), StrVal(<<" ", "C", "2">>),
     StrVal(<<"C", "9">>), StrVal(<<" ">>), NumVal(5), NoneVal, Absent}

ContractorHeaderFields(sp1012, sp4509) ==
    <<"IDDOC">> \o (IF sp1012 # Absent THEN <<"SP1012">> ELSE <<>>)
                \o (IF sp4509 # Absent THEN <<"SP4509">> ELSE <<>>)
                \o <<"SP1040">>

\* the header table of one document
ContractorHeaders(k, sp1012, sp4509) ==
    Table(ContractorHeaderFields(sp1012, sp4509),
          <<[f \in Range(ContractorHeaderFields(sp1012, sp4509)) |->
                CASE f = "IDDOC" -> DocId(k)
                  [] f = "SP1012" -> sp1012
                  [] f = "SP4509" -> sp4509
                  [] OTHER -> NumVal(8)]>>)

RecordC2 ==
    CatalogRecord(<<" ", "C", "2", " ">>, <<"0", "4">>, <<" ", "7", "7", " ">>,
                  <<>>)
RecordC1Blank == CatalogRecord(<<"C", "1">>, <<"0", "3">>, <<" ">>, <<>>)
RecordC1Again == CatalogRecord(<<"C", "1">>, <<"0", "5">>, <<"9">>, <<>>)
RecordNoId == CatalogRecord(<<" ">>, <<"0", "6">>, <<"5">>, <<>>)

\* SC174.DBF: missing, unreadable, or a table of contractors
ContractorFiles ==
    {<<>>} \cup
    {<<File(ContractorFile, t)>> :
        t \in {Unreadable,
               Table(CatalogFields, <<>>),
               Table(CatalogFields, <<RecordC1>>),
               Table(CatalogFields, <<RecordC1Blank>>),
               Table(CatalogFields, <<RecordC1, RecordC2>>),
               Table(CatalogFields, <<RecordC1, RecordC1Again>>),
               Table(CatalogFields, <<RecordNoId, RecordC2>>)}}

ContractorJournal ==
    Journal(<<Entry(DefaultDocType, Drn, NumVal(1), StrVal(<<>>)),
              Entry(MRN, Drn, NumVal(1), StrVal(<<>>))>>, FALSE)

\* one invoice of each type on day 1; the contractor fields of the headers
\* and the contractor file vary
ContractorDatabases ==
    {Database(<<File(JournalFile, ContractorJournal)>>
              \o TypeFiles(DefaultDocType,
                     ContractorHeaders(1, sp1012, sp4509),
                     Lines(DefaultDocType, <<GoodLine(DefaultDocType, 1)>>))
              \o TypeFiles(MRN, ContractorHeaders(2, sp1012, sp4509),
                           Lines(MRN, <<GoodLine(MRN, 2)>>))
              \o SubSeq(UsualCatalogs, 1, 2)
              \o contractors) :
        sp1012 \in ContractorHeaderValues,
        sp4509 \in ContractorHeaderValues,
        contractors \in ContractorFiles}

InitContractor ==
    /\ db \in ContractorDatabases
    /\ rpc = "new"
    /\ raised = ""
    /\ invoice_doc_types = <<>>
    /\ invoice_files = <<>>
    /\ field_mappings = <<>>
    /\ catalog_paths = <<>>
    /\ items_catalogs = <<>>
    /\ units_catalogs = <<>>
    /\ contractors_catalog = <<>>
    /\ read_args = [start_date |-> NoDate, end_date |-> NoDate]
    /\ read_result = <<>>
    /\ read_logged = ""
    /\ extract_result = <<>>
    /\ IdleLayout
    /\ IdleQuant
    /\ IdleInfer
    /\ IdleGroup
    /\ IdleHeight

SpecContractor == InitContractor /\ [][NextReader]_vars

\* the header field that holds the contractor of a document of the type
ContractorField(doc_type) == IF doc_type = MRN THEN "SP4509" ELSE "SP1012"

\* the header record of a document in the header table of its type
HeaderOf(doc) ==
    LET records == HeaderTable(doc.doc_type).records
    IN records[CHOOSE k \in 1..Len(records) :
                  GetStripped(records[k], "IDDOC") = doc.iddoc]

ContractorRecords ==
    IF CanOpen(db, ContractorFile) THEN db.file[ContractorFile].records
    ELSE <<>>

\* the records of the contractor file with the identifier
ContractorEntries(code) ==
    {k \in 1..Len(ContractorRecords) :
        GetStripped(ContractorRecords[k], "ID") = code}

\* the number the catalog has for the contractor of the document, the empty
\* string without one
CatalogNumber(doc) ==
    LET value == Get(HeaderOf(doc), ContractorField(doc.doc_type), Absent)
        code == Strip(value.s)
        entries == ContractorEntries(code)
    IN IF value.t # "str" \/ code = <<>> \/ entries = {} THEN <<>>
       ELSE GetStripped(
                ContractorRecords[CHOOSE k \in entries :
                                     \A j \in entries : j <= k], "DESCR")

(* C28: the contractor number of a returned invoice, which extract_invoices
   makes its order number, is the number the contractor file has for the
   code in the header field of the invoice's type (SP4509 for an MRN, SP1012
   otherwise; the last record of that identifier), and the empty string when
   the header field is absent or not a string, when no record of the file
   has the code, or when the record has an empty number. *)
C28_ContractorNumber ==
    (rpc = "read" /\ TablesWellFormed) =>
        \A k \in 1..Len(read_result) :
           /\ read_result[k].contractor_number =
                  CatalogNumber(MatchedWithHeader[k])
           /\ extract_result[k].order_number =
                  CatalogNumber(MatchedWithHeader[k])

\* the headers hold C1 for SP1012 and C2 for SP4509, the file has 265 for
\* C1 and 77 for C2: the invoice of type S3 has 265 and the MRN has 77
C28_Witness ==
    /\ rpc = "read"
    /\ TablesWellFormed
    /\ Len(read_result) = 2
    /\ MatchedWithHeader[1].doc_type = DefaultDocType
    /\ MatchedWithHeader[2].doc_type = MRN
    /\ extract_result[1].order_number = <<"2", "6", "5">>
    /\ extract_result[2].order_number = <<"7", "7">>


-----------------------------------------------------------------------------
(* The line records of an invoice *)

(* C30: the items of a returned invoice are the line records of the line
   table of the invoice's own type that hold its identifier, one item for
   each; no record of the line table of another type becomes an item of
   the invoice. *)
C30_LinesOfOwnKind ==
    (rpc = "read" /\ TablesWellFormed) =>
        \A k \in 1..Len(read_result) :
           Len(read_result[k].items) = Len(OwnLines(MatchedWithHeader[k]))

=========================================================================
